---- MODULE Spec2Model ----
(***************************************************************************)
(* Rules engine of the three-player landlord card game: the combination    *)
(* classifier (PlayValidationSystem.analyzePlay), the beat rule            *)
(* (PlayValidationSystem.validatePlay), the bidding handler                *)
(* (BiddingSystem), the play/pass handlers (PlayValidationSystem) and the  *)
(* per-frame win check (WinConditionSystem).                               *)
(***************************************************************************)
EXTENDS Integers, Sequences, FiniteSets, TLC

\* ------------------------------------------------------------------------
\* Program constants
\* ------------------------------------------------------------------------
NumPlayers == 3
MaxBid == 3
TwoValue == 15
RocketPower == 100
BombBonus == 50

\* Bound on the number of cards a collaborator puts in one PlayCardsRequest.
MaxPlayLen == 2

Players == 0 .. (NumPlayers - 1)

\* null for lastPlayOwnerId / landlordId, and for lastPlay
NoPlayer == 0 - 1
Null == << 0 >>

\* ------------------------------------------------------------------------
\* Card data (CardData component of every card entity).  Card entities are
\* identified by their entity id.  Cards 1..6 are the deck of the small
\* deal, cards 101..124 the deck of the plane deal, cards 201..254 the full
\* deck: four cards of each value 3..15 in value order, then the two jokers.
\* ------------------------------------------------------------------------
SmallDeck == 1 .. 6
SmallValues == << 5, 7, 16, 5, 17, 7 >>

PlaneDeck == 101 .. 124
PlaneValues ==
    << 3, 3, 3, 4, 4, 4, 11,
       6, 6, 6, 7, 7, 7, 12,
       8, 8, 8, 9, 9, 9, 13,
       5, 5, 5 >>

FullDeck == 201 .. 254

\* the card of the full deck with value v, the k-th of its four when v <= 15
FullCard(v, k) == IF v > TwoValue THEN 237 + v ELSE 200 + 4 * (v - 3) + k

FullValue(c) == IF c > 252 THEN c - 237 ELSE 3 + ((c - 201) \div 4)

AllCards == SmallDeck \cup PlaneDeck \cup FullDeck

\* CardData.value: 3..14 for 3..A, 15 for "2", 16 / 17 for the two jokers
CardValue(c) ==
    IF c \in SmallDeck THEN SmallValues[c]
    ELSE IF c \in PlaneDeck THEN PlaneValues[c - 100]
    ELSE FullValue(c)

\* CardData.rank: one rank per value
CardRank(c) == CardValue(c)

\* CardData.suit: only "joker" is ever tested
CardSuit(c) == IF CardValue(c) > TwoValue THEN "joker" ELSE "plain"

\* ------------------------------------------------------------------------
\* Array helpers
\* ------------------------------------------------------------------------
Range(s) == { s[i] : i \in DOMAIN s }

\* Array.prototype.includes
Includes(s, x) == \E i \in DOMAIN s : s[i] = x

\* a filter that keeps every card
FilterNothing(s, cs) == s

\* hand.cards.filter(cardInHand => !cards.includes(cardInHand))
FilterOut(s, cs) == SelectSeq(s, LAMBDA x : ~Includes(cs, x))

\* a sort that leaves the list as submitted
KeepOrder(s) == s

\* Array.prototype.sort((a, b) => a.value - b.value): stable, ascending.
\* The element at index i goes to the position that counts the elements of
\* lower value and the earlier elements of equal value.
SortByValue(s) ==
    LET pos(i) == Cardinality({ j \in DOMAIN s :
                     \/ CardValue(s[j]) < CardValue(s[i])
                     \/ CardValue(s[j]) = CardValue(s[i]) /\ j < i }) + 1
    IN  [ k \in DOMAIN s |-> s[CHOOSE i \in DOMAIN s : pos(i) = k] ]

\* values[i] === values[i-1] + 1 for every i >= 1
IsConsecutive(d) == \A i \in 2 .. Len(d) : CardValue(d[i]) = CardValue(d[i - 1]) + 1

\* rankCounts.get(rank): the number of cards of the list with that rank
RankCount(d, r) == Cardinality({ i \in DOMAIN d : CardRank(d[i]) = r })

\* the keys of rankCounts
RankKeys(d) == { CardRank(d[i]) : i \in DOMAIN d }

\* cardDataList.find(card => card.rank === rank).value
ValueOfRank(d, r) ==
    LET first == CHOOSE i \in DOMAIN d :
                    /\ CardRank(d[i]) = r
                    /\ \A j \in DOMAIN d : CardRank(d[j]) = r => i <= j
    IN  CardValue(d[first])

\* One card per rank, in order of first appearance (Map insertion order)
RankReps(d) ==
    SelectSeq([ i \in DOMAIN d |->
                  IF \A j \in 1 .. (i - 1) : CardRank(d[j]) # CardRank(d[i])
                  THEN d[i] ELSE 0 ],
              LAMBDA x : x # 0)

Combo(t, p, cs) == [ type |-> t, power |-> p, cards |-> cs ]
InvalidCombo(cs) == Combo("invalid", 0, cs)

\* ------------------------------------------------------------------------
\* PlayValidationSystem.analyzePlay: the combination classifier.  d is the
\* card list sorted by value, cards the list as submitted.
\* ------------------------------------------------------------------------

\* "Check for plane (consecutive triples), plane with singles, or plane
\* with pairs"
AnalyzePlane(d, cards) ==
    LET n == Len(cards)
        reps == RankReps(d)
        tripleRanks == SortByValue(SelectSeq(reps, LAMBDA c : RankCount(d, CardRank(c)) = 3))
        nonTripleCards == SelectSeq(d, LAMBDA c : RankCount(d, CardRank(c)) # 3)
        planeLength == Len(tripleRanks)
        planePower == CardValue(tripleRanks[planeLength])
    IN  IF n >= 6 /\ planeLength >= 2
        THEN IF \E i \in DOMAIN tripleRanks : CardValue(tripleRanks[i]) >= TwoValue
             THEN InvalidCombo(cards)
             ELSE IF IsConsecutive(tripleRanks)
                  THEN IF n = planeLength * 3
                       THEN Combo("plane", planePower, cards)
                       ELSE IF /\ n = planeLength * 4
                               /\ \A r \in RankKeys(nonTripleCards) : RankCount(nonTripleCards, r) = 1
                               /\ Cardinality(RankKeys(nonTripleCards)) = planeLength
                            THEN Combo("plane_single", planePower, cards)
                            ELSE IF /\ n = planeLength * 5
                                    /\ \A r \in RankKeys(nonTripleCards) : RankCount(nonTripleCards, r) = 2
                                    /\ Cardinality(RankKeys(nonTripleCards)) = planeLength
                                 THEN Combo("plane_pair", planePower, cards)
                                 ELSE InvalidCombo(cards)
                  ELSE InvalidCombo(cards)
        ELSE InvalidCombo(cards)

\* the straight pairs check without the exclusion of "2" and jokers
AnalyzeStraightPairWithTwo(d, cards) ==
    LET n == Len(cards)
        sortedRanks == SortByValue(RankReps(d))
    IN  IF n >= 6 /\ n % 2 = 0 /\ \A r \in RankKeys(d) : RankCount(d, r) = 2
        THEN IF IsConsecutive(sortedRanks) /\ Len(sortedRanks) >= 3
             THEN Combo("straight_pair", CardValue(sortedRanks[Len(sortedRanks)]), cards)
             ELSE AnalyzePlane(d, cards)
        ELSE AnalyzePlane(d, cards)

\* "Check for straight pairs (3+ consecutive pairs)"
AnalyzeStraightPair(d, cards) ==
    LET n == Len(cards)
        sortedRanks == SortByValue(RankReps(d))
    IN  IF n >= 6 /\ n % 2 = 0 /\ \A r \in RankKeys(d) : RankCount(d, r) = 2
        THEN IF \E i \in DOMAIN sortedRanks : CardValue(sortedRanks[i]) >= TwoValue
             THEN InvalidCombo(cards)
             ELSE IF IsConsecutive(sortedRanks) /\ Len(sortedRanks) >= 3
                  THEN Combo("straight_pair", CardValue(sortedRanks[Len(sortedRanks)]), cards)
                  ELSE AnalyzePlane(d, cards)
        ELSE AnalyzePlane(d, cards)

\* the straight check without the exclusion of the rank "2"
AnalyzeStraightWithTwo(d, cards) ==
    LET n == Len(cards)
    IN  IF n >= 5 /\ Cardinality(RankKeys(d)) = n
        THEN IF \E i \in DOMAIN d : CardSuit(d[i]) = "joker"
             THEN InvalidCombo(cards)
             ELSE IF IsConsecutive(d)
                  THEN Combo("straight", CardValue(d[n]), cards)
                  ELSE AnalyzeStraightPair(d, cards)
        ELSE AnalyzeStraightPair(d, cards)

\* "Check for straight (5+ consecutive cards)"
AnalyzeStraight(d, cards) ==
    LET n == Len(cards)
    IN  IF n >= 5 /\ Cardinality(RankKeys(d)) = n
        THEN IF \E i \in DOMAIN d : CardSuit(d[i]) = "joker"
             THEN InvalidCombo(cards)
             ELSE IF \E i \in DOMAIN d : ~(CardValue(d[i]) < TwoValue)
                  THEN InvalidCombo(cards)
                  ELSE IF IsConsecutive(d)
                       THEN Combo("straight", CardValue(d[n]), cards)
                       ELSE AnalyzeStraightPair(d, cards)
        ELSE AnalyzeStraightPair(d, cards)

\* a rank with `core` cards, whatever comes with it
CoreWithAnyWings(d, core, wings, each) ==
    \E r \in RankKeys(d) : RankCount(d, r) = core

\* A rank with `core` cards plus `wings` ranks with `each` cards, and the
\* list has exactly 1 + wings ranks (the hasFour / hasTriple loops)
CoreWithWings(d, core, wings, each) ==
    /\ Cardinality(RankKeys(d)) = 1 + wings
    /\ \E r \in RankKeys(d) : RankCount(d, r) = core
    /\ Cardinality({ r \in RankKeys(d) : RankCount(d, r) = each }) = wings

\* the value of the highest card of the list
HighestCardPower(d, core) ==
    CardValue(d[Len(d)])

\* the value of the rank that has `core` cards
CorePower(d, core) ==
    ValueOfRank(d, CHOOSE r \in RankKeys(d) : RankCount(d, r) = core)

analyzePlay(cards) ==
    LET n == Len(cards)
        d == SortByValue(cards)
    IN  IF n = 0 THEN InvalidCombo(cards)
        ELSE IF /\ n = 2
                /\ CardSuit(d[1]) = "joker"
                /\ CardSuit(d[2]) = "joker"
                /\ CardRank(d[1]) # CardRank(d[2])
        THEN Combo("rocket", RocketPower, cards)
        ELSE IF n = 4 /\ \A i \in DOMAIN d : CardRank(d[i]) = CardRank(d[1])
        THEN Combo("bomb", CardValue(d[1]) + BombBonus, cards)
        ELSE IF n = 6 /\ CoreWithWings(d, 4, 2, 1)
        THEN Combo("four_single", CorePower(d, 4), cards)
        ELSE IF n = 8 /\ CoreWithWings(d, 4, 2, 2)
        THEN Combo("four_pair", CorePower(d, 4), cards)
        ELSE IF n = 1
        THEN Combo("single", CardValue(d[1]), cards)
        ELSE IF n = 2 /\ CardRank(d[1]) = CardRank(d[2])
        THEN Combo("pair", CardValue(d[1]), cards)
        ELSE IF n = 3 /\ CardRank(d[1]) = CardRank(d[2]) /\ CardRank(d[2]) = CardRank(d[3])
        THEN Combo("triple", CardValue(d[1]), cards)
        ELSE IF n = 4 /\ CoreWithWings(d, 3, 1, 1)
        THEN Combo("triple_single", CorePower(d, 3), cards)
        ELSE IF n = 5 /\ CoreWithWings(d, 3, 1, 2)
        THEN Combo("triple_pair", CorePower(d, 3), cards)
        ELSE AnalyzeStraight(d, cards)

\* ------------------------------------------------------------------------
\* PlayValidationSystem.validatePlay: the beat rule applied by the
\* validator.  lastPlay is a combination or NoCombo (null).
\* ------------------------------------------------------------------------
NoCombo == Combo("null", 0, << >>)

Verdict(v, r) == [ valid |-> v, reason |-> r ]

\* a rocket that is compared as any regular play
RocketBeatsNothing(play) == FALSE

\* "Rocket beats everything"
RocketBeatsEverything(play) == play.type = "rocket"

\* a bomb that any bomb beats
BombVerdictAnyBomb(play, lastPlay) ==
    IF lastPlay.type = "rocket"
    THEN Verdict(FALSE, "Rocket beats bomb")
    ELSE Verdict(TRUE, "")

\* "Bomb beats everything except rocket"
BombVerdict(play, lastPlay) ==
    IF lastPlay.type = "rocket"
    THEN Verdict(FALSE, "Rocket beats bomb")
    ELSE IF lastPlay.type = "bomb" /\ play.power <= lastPlay.power
         THEN Verdict(FALSE, "Need a higher bomb")
         ELSE Verdict(TRUE, "")

\* regular plays that win with equal power
RegularVerdictEqualPower(play, lastPlay) ==
    IF play.type # lastPlay.type
    THEN Verdict(FALSE, "Must play the same combination type (" \o lastPlay.type \o ")")
    ELSE IF /\ play.type \in { "straight", "straight_pair" }
            /\ Len(play.cards) # Len(lastPlay.cards)
    THEN Verdict(FALSE, "Straight length must match the previous play")
    ELSE IF play.power < lastPlay.power
    THEN Verdict(FALSE, "Must play higher value cards")
    ELSE Verdict(TRUE, "")

\* "For regular plays, type must match and power must be higher"
RegularVerdict(play, lastPlay) ==
    IF play.type # lastPlay.type
    THEN Verdict(FALSE, "Must play the same combination type (" \o lastPlay.type \o ")")
    ELSE IF /\ play.type \in { "straight", "straight_pair" }
            /\ Len(play.cards) # Len(lastPlay.cards)
    THEN Verdict(FALSE, "Straight length must match the previous play")
    ELSE IF play.power <= lastPlay.power
    THEN Verdict(FALSE, "Must play higher value cards")
    ELSE Verdict(TRUE, "")

\* validatePlay treating a play as a free lead only for the owner of lastPlay
validatePlayOwnerLeadOnly(play, lastPlay, isLastPlayer) ==
    IF play.type = "invalid"
    THEN Verdict(FALSE, "Invalid card combination")
    ELSE IF isLastPlayer
    THEN Verdict(TRUE, "")
    ELSE IF RocketBeatsEverything(play)
    THEN Verdict(TRUE, "")
    ELSE IF play.type = "bomb"
    THEN BombVerdict(play, lastPlay)
    ELSE RegularVerdict(play, lastPlay)

validatePlay(play, lastPlay, isLastPlayer) ==
    IF play.type = "invalid"
    THEN Verdict(FALSE, "Invalid card combination")
    ELSE IF lastPlay = NoCombo \/ isLastPlayer
    THEN Verdict(TRUE, "")
    ELSE IF RocketBeatsEverything(play)
    THEN Verdict(TRUE, "")
    ELSE IF play.type = "bomb"
    THEN BombVerdict(play, lastPlay)
    ELSE RegularVerdict(play, lastPlay)

\* PlayValidationSystem.verifyCardsInHand
verifyCardsInHand(playCards, handCards) ==
    \A i \in DOMAIN playCards : Includes(handCards, playCards[i])

\* ------------------------------------------------------------------------
\* State
\* ------------------------------------------------------------------------
VARIABLES
    phase,            \* GameState.phase
    currentPlayerId,  \* GameState.currentPlayerId
    lastPlay,         \* GameState.lastPlay: a card list, or Null
    lastPlayOwnerId,  \* GameState.lastPlayOwnerId: a player, or NoPlayer
    landlordCards,    \* GameState.landlordCards
    winner,           \* GameState.winner
    passCount,        \* GameState.passCount
    bidHistory,       \* GameState.bidHistory
    currentBid,       \* GameState.currentBid
    landlordId,       \* GameState.landlordId: a player, or NoPlayer
    hands,            \* Hand.cards of every player entity
    role,             \* PlayerInfo.role of every player entity
    timers,           \* pending setTimeout callbacks of BiddingSystem.endBidding
    last,             \* the handler run by the current task, its outcome and the events
                      \* it emitted (Idle between tasks)
    leader,           \* the player of the most recent accepted play, or NoPlayer
    passers,          \* the players whose pass was accepted since that play
    firstOut,         \* the player whose accepted play first emptied a hand, or NoPlayer
    isThinking,       \* AISystem.isThinking
    lastThinkTime,    \* AISystem.lastThinkTime, in milliseconds
    lastInvalidPlay,  \* AISystem.lastInvalidPlay: for every player the cards and the
                      \* attempts of the entry, or NoInvalidPlay
    aiTimers,         \* pending setTimeout callbacks of AISystem.update: the players
                      \* they were set for
    rejectedPlays     \* for every player the play requests of AISystem refused with an
                      \* invalidPlay event since its last accepted request

roundVars == << phase, currentPlayerId, lastPlay, lastPlayOwnerId, passCount >>
bidVars == << currentBid, landlordId, bidHistory >>
gameVars == << phase, currentPlayerId, lastPlay, lastPlayOwnerId, landlordCards, winner,
               passCount, bidHistory, currentBid, landlordId, hands, role, timers >>
aiVars == << isThinking, lastThinkTime, lastInvalidPlay, aiTimers, rejectedPlays >>
vars == << phase, currentPlayerId, lastPlay, lastPlayOwnerId, landlordCards, winner,
           passCount, bidHistory, currentBid, landlordId, hands, role, timers,
           last, leader, passers, firstOut,
           isThinking, lastThinkTime, lastInvalidPlay, aiTimers, rejectedPlays >>

\* no bid
NoBid == 0 - 1

\* cards and amount are what an accepted request had the handler apply: the
\* cards of a play, the amount of a bid; playerId, cards and combinationType
\* are also the payload of the PlayCardsValidated event of an accepted play
Handled(op, playerId, result, reason, events) ==
    [ op |-> op, playerId |-> playerId, result |-> result, reason |-> reason,
      events |-> events, cards |-> << >>, amount |-> NoBid, combinationType |-> "" ]

\* no handler is running: the event loop waits for the next task
Idle == Handled("idle", NoPlayer, "", "", << >>)

\* no entry of the player in the Map lastInvalidPlay
NoInvalidPlay == [ cards |-> "", attempts |-> 0 ]

\* the fields of AISystem as its constructor leaves them.  The requests of
\* BidRequest, PlayCardsRequest and PassTurnRequest are those made for any
\* player through the helper methods of World; the fields of AISystem are
\* followed in SpecAI, where the requests of the players 1 and 2 are those
\* AISystem makes.
AIInit ==
    /\ isThinking = FALSE
    /\ lastThinkTime = 0
    /\ lastInvalidPlay = [ p \in Players |-> NoInvalidPlay ]
    /\ aiTimers = << >>
    /\ rejectedPlays = [ p \in Players |-> 0 ]

\* ------------------------------------------------------------------------
\* createCardDeck: the shuffled deck is dealt round-robin, the last three
\* cards are the landlord cards
\* ------------------------------------------------------------------------
SmallShuffle == << 1, 2, 3, 4, 5, 6 >>

\* the plane deal: three triples of consecutive ranks come together in the
\* hand of whoever becomes the landlord
PlaneShuffle ==
    << 101, 108, 115, 102, 109, 116, 103, 110, 117,
       104, 111, 118, 105, 112, 119, 106, 113, 120,
       107, 114, 121, 122, 123, 124 >>

DealtHand(shuffled, p) ==
    LET dealt == Len(shuffled) - 3
        idx == SelectSeq([ i \in 1 .. dealt |-> i ], LAMBDA i : (i - 1) % NumPlayers = p)
    IN  [ k \in DOMAIN idx |-> shuffled[idx[k]] ]

DealtLandlordCards(shuffled) == SubSeq(shuffled, Len(shuffled) - 2, Len(shuffled))

\* World.initWorld with the given shuffle
InitWorld(shuffled) ==
    /\ phase = "bidding"
    /\ currentPlayerId \in Players
    /\ lastPlay = Null
    /\ lastPlayOwnerId = NoPlayer
    /\ landlordCards = DealtLandlordCards(shuffled)
    /\ winner = "none"
    /\ passCount = 0
    /\ bidHistory = << >>
    /\ currentBid = 0
    /\ landlordId = NoPlayer
    /\ hands = [ p \in Players |-> DealtHand(shuffled, p) ]
    /\ role = [ p \in Players |-> "farmer" ]
    /\ timers = << >>
    /\ last = Idle
    /\ leader = NoPlayer
    /\ passers = { }
    /\ firstOut = NoPlayer
    /\ AIInit

Init == InitWorld(SmallShuffle)

\* ------------------------------------------------------------------------
\* BiddingSystem
\* ------------------------------------------------------------------------
hasAlreadyBid(playerId) == \E i \in DOMAIN bidHistory : bidHistory[i].playerId = playerId

\* handleBidRequest without the test for an earlier bid of the requester
BidRejectionRepeatable(playerId, amount) ==
    IF phase # "bidding" \/ playerId # currentPlayerId
    THEN "Invalid bid request"
    ELSE IF amount < 0 \/ amount > MaxBid
    THEN "Invalid bid amount"
    ELSE IF amount > 0 /\ amount <= currentBid
    THEN "Bid must be higher than current bid"
    ELSE ""

\* The early returns of handleBidRequest: "" when the bid is accepted
BidRejection(playerId, amount) ==
    IF phase # "bidding" \/ playerId # currentPlayerId
    THEN "Invalid bid request"
    ELSE IF amount < 0 \/ amount > MaxBid
    THEN "Invalid bid amount"
    ELSE IF hasAlreadyBid(playerId)
    THEN "Player has already bid"
    ELSE IF amount > 0 /\ amount <= currentBid
    THEN "Bid must be higher than current bid"
    ELSE ""

\* handleGameReset that keeps the bids of the voided round
handleGameResetKeepsBids ==
    /\ phase' = "bidding"
    /\ currentPlayerId' \in Players
    /\ currentBid' = 0
    /\ landlordId' = NoPlayer
    /\ bidHistory' = bidHistory
    /\ role' = [ p \in Players |-> "farmer" ]

\* handleGameReset, reached through endBidding -> resetGame
handleGameReset ==
    /\ phase' = "bidding"
    /\ currentPlayerId' \in Players
    /\ currentBid' = 0
    /\ landlordId' = NoPlayer
    /\ bidHistory' = << >>
    /\ role' = [ p \in Players |-> "farmer" ]

\* endBidding handing the turn to the next player while the cards are shown
endBiddingPassesTurn(playerId, history, newBid, newLandlord) ==
    IF (\E i \in DOMAIN history : history[i].bid > 0) /\ newLandlord # NoPlayer
    THEN /\ role' = [ role EXCEPT ![newLandlord] = "landlord" ]
         /\ timers' = Append(timers, newLandlord)
         /\ currentBid' = newBid
         /\ landlordId' = newLandlord
         /\ bidHistory' = history
         /\ currentPlayerId' = (currentPlayerId + 1) % NumPlayers
         /\ UNCHANGED phase
         /\ last' = [ Handled("bid", playerId, "accepted", "",
                              << "gameStateChanged", "gameStateChanged", "gameStateChanged" >>)
                       EXCEPT !.amount = history[Len(history)].bid ]
    ELSE /\ handleGameReset
         /\ UNCHANGED timers
         /\ last' = [ Handled("bid", playerId, "accepted", "",
                              << "gameReset", "gameStateChanged", "gameStateChanged" >>)
                       EXCEPT !.amount = history[Len(history)].bid ]

\* endBidding, with the bid already recorded in history
endBidding(playerId, history, newBid, newLandlord) ==
    IF (\E i \in DOMAIN history : history[i].bid > 0) /\ newLandlord # NoPlayer
    THEN /\ role' = [ role EXCEPT ![newLandlord] = "landlord" ]
         /\ timers' = Append(timers, newLandlord)
         /\ currentBid' = newBid
         /\ landlordId' = newLandlord
         /\ bidHistory' = history
         /\ UNCHANGED << phase, currentPlayerId >>
         /\ last' = [ Handled("bid", playerId, "accepted", "",
                              << "gameStateChanged", "gameStateChanged", "gameStateChanged" >>)
                       EXCEPT !.amount = history[Len(history)].bid ]
    ELSE /\ handleGameReset
         /\ UNCHANGED timers
         /\ last' = [ Handled("bid", playerId, "accepted", "",
                              << "gameReset", "gameStateChanged", "gameStateChanged" >>)
                       EXCEPT !.amount = history[Len(history)].bid ]

\* a bid that makes every bidder the landlord, whatever the amount
landlordAfterAnyBid(playerId, amount) == playerId

\* "Process bid": gameState.landlordId after the bid is processed
landlordAfterBid(playerId, amount) ==
    IF amount > currentBid THEN playerId ELSE landlordId

handleBidRequest(playerId, amount) ==
    LET reason == BidRejection(playerId, amount)
        raised == amount > currentBid
        newBid == IF raised THEN amount ELSE currentBid
        newLandlord == landlordAfterBid(playerId, amount)
        history == Append(bidHistory, [ playerId |-> playerId, bid |-> amount ])
    IN  /\ UNCHANGED << lastPlay, lastPlayOwnerId, landlordCards, winner, passCount, hands,
                        leader, passers, firstOut >>
        /\ IF reason # ""
           THEN /\ UNCHANGED << phase, currentPlayerId, bidHistory, currentBid, landlordId,
                                role, timers >>
                /\ last' = Handled("bid", playerId, "rejected", reason, << >>)
           ELSE IF amount = MaxBid \/ Len(history) = NumPlayers
           THEN endBidding(playerId, history, newBid, newLandlord)
           ELSE /\ currentBid' = newBid
                /\ landlordId' = newLandlord
                /\ bidHistory' = history
                /\ currentPlayerId' = (currentPlayerId + 1) % NumPlayers
                /\ UNCHANGED << phase, role, timers >>
                /\ last' = [ Handled("bid", playerId, "accepted", "", << "gameStateChanged" >>)
                              EXCEPT !.amount = amount ]

\* integrateLandlordCards leaving the turn with the last bidder
integrateKeepsTurn(landlord) ==
    /\ hands' = [ hands EXCEPT ![landlord] = SortByValue(hands[landlord] \o landlordCards) ]
    /\ phase' = "playing"
    /\ UNCHANGED << currentPlayerId, lastPlay, lastPlayOwnerId, landlordCards, winner,
                    passCount, bidHistory, currentBid, landlordId, role, leader, passers,
                    firstOut >>
    /\ last' = Handled("integrate", landlord, "accepted", "", << "gameStateChanged" >>)

\* integrateLandlordCards pushing the landlord cards to every hand
integrateToEveryHand(landlord) ==
    /\ hands' = [ p \in Players |-> SortByValue(hands[p] \o landlordCards) ]
    /\ phase' = "playing"
    /\ currentPlayerId' = landlordId
    /\ UNCHANGED << lastPlay, lastPlayOwnerId, landlordCards, winner, passCount, bidHistory,
                    currentBid, landlordId, role, leader, passers, firstOut >>
    /\ last' = Handled("integrate", landlord, "accepted", "", << "gameStateChanged" >>)

\* integrateLandlordCards, run by the timer that endBidding set
integrateLandlordCards(landlord) ==
    /\ hands' = [ hands EXCEPT ![landlord] = SortByValue(hands[landlord] \o landlordCards) ]
    /\ phase' = "playing"
    /\ currentPlayerId' = landlordId
    /\ UNCHANGED << lastPlay, lastPlayOwnerId, landlordCards, winner, passCount, bidHistory,
                    currentBid, landlordId, role, leader, passers, firstOut >>
    /\ last' = Handled("integrate", landlord, "accepted", "", << "gameStateChanged" >>)

\* ------------------------------------------------------------------------
\* PlayValidationSystem
\* ------------------------------------------------------------------------
lastPlayInfo == IF lastPlay = Null THEN NoCombo ELSE analyzePlay(lastPlay)

\* The early returns of handlePlay: "" when the play is accepted
PlayRejection(playerId, cards) ==
    IF phase # "playing" \/ playerId # currentPlayerId
    THEN "Invalid play request"
    ELSE IF ~verifyCardsInHand(cards, hands[playerId])
    THEN "You do not have all these cards in your hand"
    ELSE validatePlay(analyzePlay(cards), lastPlayInfo, lastPlayOwnerId = playerId).reason

\* The events handlePlay emits on a rejection
PlayRejectionEvents(playerId, reason) ==
    IF reason = "Invalid play request"
    THEN << >>
    ELSE IF reason = "You do not have all these cards in your hand"
    THEN << "invalidPlay" >>
    ELSE IF playerId = 0
    THEN << "clearCardSelection", "invalidPlay" >>
    ELSE << "invalidPlay" >>

\* an accepted play that tells nobody what was played
AcceptedPlayEventsUnvalidated == << "clearCardSelection", "gameStateChanged" >>

\* The events handlePlay emits when it accepts the play
AcceptedPlayEvents == << "clearCardSelection", "playCardsValidated", "gameStateChanged" >>

handlePlay(playerId, cards) ==
    LET reason == PlayRejection(playerId, cards)
        remaining == FilterOut(hands[playerId], cards)
    IN  /\ UNCHANGED << phase, landlordCards, winner, bidHistory, currentBid, landlordId,
                        role, timers >>
        /\ IF reason # ""
           THEN /\ UNCHANGED << currentPlayerId, lastPlay, lastPlayOwnerId, passCount, hands,
                                leader, passers, firstOut >>
                /\ last' = Handled("play", playerId, "rejected", reason,
                                   PlayRejectionEvents(playerId, reason))
           ELSE /\ hands' = [ hands EXCEPT ![playerId] = remaining ]
                /\ lastPlay' = cards
                /\ lastPlayOwnerId' = playerId
                /\ passCount' = 0
                /\ currentPlayerId' = (currentPlayerId + 1) % NumPlayers
                /\ leader' = playerId
                /\ passers' = { }
                /\ firstOut' = IF firstOut = NoPlayer /\ remaining = << >>
                               THEN playerId ELSE firstOut
                /\ last' = [ Handled("play", playerId, "accepted", "", AcceptedPlayEvents)
                              EXCEPT !.cards = cards,
                                     !.combinationType = analyzePlay(cards).type ]

\* handlePass without the test for a standing play of another player
PassRejectionTurnOnly(playerId) ==
    IF phase # "playing" \/ playerId # currentPlayerId
    THEN "Invalid pass request"
    ELSE ""

\* handlePass without the test of the requester against currentPlayerId
PassRejectionAnyPlayer(playerId) ==
    IF phase # "playing"
    THEN "Invalid pass request"
    ELSE IF lastPlay = Null \/ lastPlayOwnerId = playerId
    THEN "You cannot pass when you are the first player or won the last round"
    ELSE ""

\* handlePass refusing a second pass on the same play
PassRejectionSecondPass(playerId) ==
    IF phase # "playing" \/ playerId # currentPlayerId
    THEN "Invalid pass request"
    ELSE IF lastPlay = Null \/ lastPlayOwnerId = playerId \/ passCount >= 1
    THEN "You cannot pass when you are the first player or won the last round"
    ELSE ""

\* handlePass without the test of the phase
PassRejectionAnyPhase(playerId) ==
    IF playerId # currentPlayerId
    THEN "Invalid pass request"
    ELSE IF lastPlay = Null \/ lastPlayOwnerId = playerId
    THEN "You cannot pass when you are the first player or won the last round"
    ELSE ""

\* The early returns of handlePass: "" when the pass is accepted
PassRejection(playerId) ==
    IF phase # "playing" \/ playerId # currentPlayerId
    THEN "Invalid pass request"
    ELSE IF lastPlay = Null \/ lastPlayOwnerId = playerId
    THEN "You cannot pass when you are the first player or won the last round"
    ELSE ""

\* a round that no number of passes completes
roundNeverCompleted(counted, afterCurrent) == FALSE

\* a round that only a third pass completes
roundCompletedByThreePasses(counted, afterCurrent) == counted >= 3

\* a round that the first pass completes
roundCompletedByOnePass(counted, afterCurrent) == counted >= 1

\* "If everyone else has passed, the last player who played gets to play
\* again.  Only clear the round when turn cycles back to lastPlayOwner"
roundCompleted(counted, afterCurrent) ==
    counted >= 2 /\ afterCurrent = lastPlayOwnerId

\* handlePass counting the pass before it decides to reject it
handlePassCountedFirst(playerId) ==
    LET reason == PassRejection(playerId)
        counted == passCount + 1
        afterCurrent == (currentPlayerId + 1) % NumPlayers
    IN  /\ UNCHANGED << phase, landlordCards, winner, bidHistory, currentBid, landlordId,
                        hands, role, timers, firstOut >>
        /\ IF reason # ""
           THEN /\ passCount' = counted
                /\ UNCHANGED << currentPlayerId, lastPlay, lastPlayOwnerId, leader, passers >>
                /\ last' = Handled("pass", playerId, "rejected", reason,
                                   IF reason = "Invalid pass request"
                                   THEN << >> ELSE << "invalidPlay" >>)
           ELSE /\ currentPlayerId' = afterCurrent
                /\ IF roundCompleted(counted, afterCurrent)
                   THEN /\ lastPlay' = Null
                        /\ lastPlayOwnerId' = NoPlayer
                        /\ passCount' = 0
                   ELSE /\ passCount' = counted
                        /\ UNCHANGED << lastPlay, lastPlayOwnerId >>
                /\ passers' = passers \cup { playerId }
                /\ UNCHANGED leader
                /\ last' = Handled("pass", playerId, "accepted", "", << "gameStateChanged" >>)

handlePass(playerId) ==
    LET reason == PassRejection(playerId)
        counted == passCount + 1
        afterCurrent == (currentPlayerId + 1) % NumPlayers
    IN  /\ UNCHANGED << phase, landlordCards, winner, bidHistory, currentBid, landlordId,
                        hands, role, timers, firstOut >>
        /\ IF reason # ""
           THEN /\ UNCHANGED << currentPlayerId, lastPlay, lastPlayOwnerId, passCount,
                                leader, passers >>
                /\ last' = Handled("pass", playerId, "rejected", reason,
                                   IF reason = "Invalid pass request"
                                   THEN << >> ELSE << "invalidPlay" >>)
           ELSE /\ currentPlayerId' = afterCurrent
                /\ IF roundCompleted(counted, afterCurrent)
                   THEN /\ lastPlay' = Null
                        /\ lastPlayOwnerId' = NoPlayer
                        /\ passCount' = 0
                   ELSE /\ passCount' = counted
                        /\ UNCHANGED << lastPlay, lastPlayOwnerId >>
                /\ passers' = passers \cup { playerId }
                /\ UNCHANGED leader
                /\ last' = Handled("pass", playerId, "accepted", "", << "gameStateChanged" >>)

\* ------------------------------------------------------------------------
\* WinConditionSystem.update, run by World.update on every frame
\* ------------------------------------------------------------------------
\* a win check that looks at the landlord's hand only
LandlordEmptyHand ==
    IF landlordId # NoPlayer /\ hands[landlordId] = << >> THEN landlordId ELSE NoPlayer

\* the first player, in entity order, whose hand is empty (NoPlayer if none)
FirstEmptyHand ==
    IF \E p \in Players : hands[p] = << >>
    THEN CHOOSE p \in Players : hands[p] = << >> /\ \A q \in Players : hands[q] = << >> => p <= q
    ELSE NoPlayer

WinConditionUpdate ==
    /\ UNCHANGED << currentPlayerId, lastPlay, lastPlayOwnerId, landlordCards, passCount,
                    bidHistory, currentBid, landlordId, hands, role, timers, leader, passers, firstOut >>
    /\ IF phase = "playing" /\ FirstEmptyHand # NoPlayer
       THEN /\ winner' = IF role[FirstEmptyHand] = "landlord" THEN "landlord" ELSE "farmers"
            /\ phase' = "finished"
            /\ last' = Handled("frame", FirstEmptyHand, "accepted", "", << "gameStateChanged" >>)
       ELSE /\ UNCHANGED << phase, winner >>
            /\ last' = Handled("frame", NoPlayer, "accepted", "", << >>)

\* ------------------------------------------------------------------------
\* CardCombinationAnalyzer.analyzeCards and canBeat: the combinations the
\* hint and the AI look for in a list of cards
\* ------------------------------------------------------------------------
AnalyzerBombBonus == 100

\* the lists of a list of lists, one after the other
RECURSIVE Concat(_)
Concat(ss) == IF ss = << >> THEN << >> ELSE Head(ss) \o Concat(Tail(ss))

\* groupByValue: the keys of the Map, in insertion order
ValueKeys(cs) ==
    LET firsts == SelectSeq([ i \in DOMAIN cs |->
                               IF \A j \in 1 .. (i - 1) : CardValue(cs[j]) # CardValue(cs[i])
                               THEN cs[i] ELSE 0 ],
                            LAMBDA x : x # 0)
    IN  [ i \in DOMAIN firsts |-> CardValue(firsts[i]) ]

\* groupByValue(cards).get(v)
ValueGroup(cs, v) == SelectSeq(cs, LAMBDA c : CardValue(c) = v)

\* a single of every card
Singles(cs) == [ i \in DOMAIN cs |-> Combo("single", CardValue(cs[i]), << cs[i] >>) ]

\* every two cards i < j of a group
PairsOf(g) ==
    Concat([ i \in 1 .. (Len(g) - 1) |->
               [ k \in 1 .. (Len(g) - i) |->
                   Combo("pair", CardValue(g[i]), << g[i], g[i + k] >>) ] ])

Pairs(cs) ==
    LET keys == ValueKeys(cs)
    IN  Concat([ n \in DOMAIN keys |-> PairsOf(ValueGroup(cs, keys[n])) ])

\* the values of the groups of at least m cards, in insertion order
KeysOfSize(cs, m) == SelectSeq(ValueKeys(cs), LAMBDA v : Len(ValueGroup(cs, v)) >= m)

\* the first m cards of the group of a value
FirstOfGroup(cs, v, m) == SubSeq(ValueGroup(cs, v), 1, m)

Triples(cs) ==
    LET keys == KeysOfSize(cs, 3)
    IN  [ n \in DOMAIN keys |-> Combo("triple", keys[n], FirstOfGroup(cs, keys[n], 3)) ]

\* the canonical triple with every card of another value
TripleSingles(cs) ==
    LET keys == KeysOfSize(cs, 3)
        with(t) == SelectSeq(cs, LAMBDA c : CardValue(c) # t)
        \* the groups in insertion order, the cards of a group in list order
        others(t) == Concat([ n \in DOMAIN ValueKeys(cs) |->
                                ValueGroup(with(t), ValueKeys(cs)[n]) ])
    IN  Concat([ n \in DOMAIN keys |->
                   [ k \in DOMAIN others(keys[n]) |->
                       Combo("triple_single", keys[n],
                             FirstOfGroup(cs, keys[n], 3) \o << others(keys[n])[k] >>) ] ])

\* the canonical triple with the first two cards of every other group of
\* at least two cards
TriplePairs(cs) ==
    LET keys == KeysOfSize(cs, 3)
        pairs(t) == SelectSeq(KeysOfSize(cs, 2), LAMBDA v : v # t)
    IN  Concat([ n \in DOMAIN keys |->
                   [ k \in DOMAIN pairs(keys[n]) |->
                       Combo("triple_pair", keys[n],
                             FirstOfGroup(cs, keys[n], 3)
                                \o FirstOfGroup(cs, pairs(keys[n])[k], 2)) ] ])

Bombs(cs) ==
    LET keys == KeysOfSize(cs, 4)
    IN  [ n \in DOMAIN keys |->
            Combo("bomb", AnalyzerBombBonus + keys[n], FirstOfGroup(cs, keys[n], 4)) ]

\* combinations.sort((a, b) => b.power - a.power): stable, strongest first
RECURSIVE ByPowerDescending(_, _)
ByPowerDescending(s, powers) ==
    IF powers = { }
    THEN << >>
    ELSE LET top == CHOOSE p \in powers : \A q \in powers : q <= p
         IN  SelectSeq(s, LAMBDA c : c.power = top) \o ByPowerDescending(s, powers \ { top })

SortByPower(s) == ByPowerDescending(s, { s[i].power : i \in DOMAIN s })

analyzeCards(cardEntities) ==
    IF cardEntities = << >>
    THEN << >>
    ELSE SortByPower(Singles(cardEntities) \o Pairs(cardEntities) \o Triples(cardEntities)
                       \o TripleSingles(cardEntities) \o TriplePairs(cardEntities)
                       \o Bombs(cardEntities))

canBeat(a, b) ==
    IF a.type = "rocket" THEN TRUE
    ELSE IF b.type = "rocket" THEN FALSE
    ELSE IF a.type = "bomb" /\ b.type # "bomb" THEN TRUE
    ELSE IF a.type # "bomb" /\ b.type = "bomb" THEN FALSE
    ELSE IF a.type = b.type THEN a.power > b.power
    ELSE FALSE

\* ------------------------------------------------------------------------
\* StrategicPlayManager: the recommendation shared by the hint and the AI
\* ------------------------------------------------------------------------
\* CombinationStrength
WEAK == 1
MODERATE == 2
STRONG == 3
ULTRA == 4

Min(a, b) == IF a <= b THEN a ELSE b

evaluateCombinationStrength(combo) ==
    IF combo.type \in { "bomb", "rocket" } THEN ULTRA
    ELSE IF combo.type \in { "plane", "plane_single", "plane_pair", "four_single", "four_pair" }
    THEN STRONG
    ELSE IF combo.type = "straight_pair" \/ (combo.type = "straight" /\ Len(combo.cards) >= 7)
    THEN MODERATE
    ELSE IF combo.type \in { "triple_pair", "triple_single" }
    THEN IF combo.power >= 14 THEN STRONG
         ELSE IF combo.power >= 11 THEN MODERATE
         ELSE WEAK
    ELSE IF combo.type = "pair"
    THEN IF combo.power >= 14 THEN STRONG
         ELSE IF combo.power >= 12 THEN MODERATE
         ELSE WEAK
    ELSE IF combo.type = "single"
    THEN IF combo.power >= 15 THEN ULTRA
         ELSE IF combo.power >= 14 THEN STRONG
         ELSE IF combo.power >= 12 THEN MODERATE
         ELSE WEAK
    ELSE WEAK

calculatePriority(combo, remainingCards, isOffensive) ==
    LET byCount == IF remainingCards <= 5 THEN Len(combo.cards) * 10
                   ELSE IF remainingCards <= 10 THEN Len(combo.cards) * 5
                   ELSE IF combo.type = "single" /\ combo.power < 8 THEN 15
                   ELSE 0
        strength == evaluateCombinationStrength(combo)
        byStrength == IF strength = WEAK THEN 20
                      ELSE IF strength = MODERATE THEN (IF isOffensive THEN 10 ELSE 5)
                      ELSE IF strength = STRONG THEN (IF isOffensive THEN 5 ELSE 0 - 10)
                      ELSE (IF isOffensive THEN 0 ELSE 0 - 20)
        byType == IF combo.type = "straight" /\ Len(combo.cards) >= 5
                  THEN Min(Len(combo.cards) - 4, 5)
                  ELSE 0
    IN  byCount + byStrength + byType

\* playableCombinations.map(combo => ({ combination, strength, priority }))
combinationAnalysis(playableCombinations, remainingCards, isOffensive) ==
    [ i \in DOMAIN playableCombinations |->
        [ combination |-> playableCombinations[i],
          strength |-> evaluateCombinationStrength(playableCombinations[i]),
          priority |-> calculatePriority(playableCombinations[i], remainingCards, isOffensive) ] ]

\* the comparator of combinationAnalysis.sort is negative: a goes before b
SortsBefore(a, b) ==
    IF a.priority # b.priority THEN a.priority > b.priority
    ELSE IF a.strength # b.strength THEN a.strength < b.strength
    ELSE a.combination.power < b.combination.power

\* the first entry of the list as it was given
FirstListed(analysis) ==
    analysis[1]

\* combinationAnalysis.sort(...)[0]: the sort is stable, so the first
\* element is the earliest of those that no other element goes before
bestChoice(analysis) ==
    analysis[CHOOSE i \in DOMAIN analysis :
                /\ \A j \in DOMAIN analysis : ~SortsBefore(analysis[j], analysis[i])
                /\ \A j \in 1 .. (i - 1) : SortsBefore(analysis[i], analysis[j])]

\* no recommendation (null)
NoRecommendation == [ combination |-> NoCombo, strength |-> 0, priority |-> 0 ]

\* a recommendation drawn from every combination of the hand, legal or not
recommendFromAll(allCombinations, playableCombinations, remainingCards, isOffensive) ==
    IF Len(allCombinations) = 0
    THEN NoRecommendation
    ELSE bestChoice(combinationAnalysis(allCombinations, remainingCards, isOffensive))

\* generateStrategicRecommendation: the combination, strength and priority of
\* the recommendation, or null
generateStrategicRecommendation(allCombinations, playableCombinations, remainingCards, isOffensive) ==
    IF Len(playableCombinations) = 0
    THEN NoRecommendation
    ELSE bestChoice(combinationAnalysis(playableCombinations, remainingCards, isOffensive))

\* a sort that turns the caller's list of candidates weakest first
SortedInPlace(allCombinations, playableCombinations) ==
    << allCombinations,
       [ i \in DOMAIN playableCombinations |->
           playableCombinations[Len(playableCombinations) + 1 - i] ] >>

\* the two lists of the caller after generateStrategicRecommendation has
\* returned: map() makes a new array, which is the one sorted, and
\* analyzePreservedCombinations filters into new arrays
ListsAfterRecommendation(allCombinations, playableCombinations) ==
    << allCombinations, playableCombinations >>

\* ------------------------------------------------------------------------
\* HintSystem
\* ------------------------------------------------------------------------
\* CardData has the fields id, suit, rank, value and faceUp: the `entity` the
\* hint reads from a card of a combination is undefined, which is no card
NoEntity == 0
EntityOf(card) == NoEntity

\* HintSystem.analyzeLastPlay: the combination found in the cards of the
\* last play whose entities are those cards, else the first one of as many
\* cards, else null.  (Both lists are sorted before they are compared;
\* every entity of the combination being the same, the order is immaterial.)
analyzeLastPlay(lastPlayCards) ==
    LET combinations == analyzeCards(lastPlayCards)
        sameLength == { i \in DOMAIN combinations :
                          Len(combinations[i].cards) = Len(lastPlayCards) }
        exact == { i \in sameLength :
                     \A k \in DOMAIN lastPlayCards :
                        EntityOf(combinations[i].cards[k]) = lastPlayCards[k] }
        first(S) == CHOOSE i \in S : \A j \in S : i <= j
    IN  IF exact # { } THEN combinations[first(exact)]
        ELSE IF sameLength # { } THEN combinations[first(sameLength)]
        ELSE NoCombo

shouldPlayOffensively(remainingCards) ==
    IF remainingCards <= 5 THEN TRUE ELSE remainingCards <= 8

\* the combinations of the hand the hint keeps as candidates
playableCombinations(cards) ==
    LET allCombinations == analyzeCards(cards)
        lastPlayCombination == IF lastPlay # Null /\ Len(lastPlay) > 0
                               THEN analyzeLastPlay(lastPlay) ELSE NoCombo
    IN  IF lastPlayCombination # NoCombo
        THEN SelectSeq(allCombinations, LAMBDA combo : canBeat(combo, lastPlayCombination))
        ELSE allCombinations

\* what generateHint answers: the notification and the cards it suggests
generateHint(cards) ==
    LET allCombinations == analyzeCards(cards)
        playable == playableCombinations(cards)
        recommendation == generateStrategicRecommendation(allCombinations, playable,
                              Len(cards), shouldPlayOffensively(Len(cards)))
    IN  IF Len(allCombinations) = 0
        THEN Handled("hint", 0, "none", "No valid combinations", << "hintResult" >>)
        ELSE IF Len(playable) = 0
        THEN Handled("hint", 0, "none", "Consider passing (no cards can beat last play)",
                     << "hintResult" >>)
        ELSE IF recommendation # NoRecommendation
        THEN [ Handled("hint", 0, "suggested", "", << "hintResult" >>)
                 EXCEPT !.cards = recommendation.combination.cards ]
        ELSE Handled("hint", 0, "none", "Consider passing", << "hintResult" >>)

\* a hint that takes the suggested cards out of the hand
handleHintRequestPlaysHint(playerId) ==
    /\ last' = IF playerId # 0 \/ phase # "playing" \/ currentPlayerId # playerId
                  \/ hands[playerId] = << >>
               THEN Handled("hint", playerId, "ignored", "", << >>)
               ELSE generateHint(hands[playerId])
    /\ hands' = [ hands EXCEPT ![playerId] = FilterOut(hands[playerId], last'.cards) ]
    /\ UNCHANGED << phase, currentPlayerId, lastPlay, lastPlayOwnerId, landlordCards, winner,
                    passCount, bidHistory, currentBid, landlordId, role, timers,
                    leader, passers, firstOut >>

\* handleHintRequest reads the state of the game and of the hand, and emits
\* hintResult or returns without a word
handleHintRequest(playerId) ==
    /\ last' = IF playerId # 0 \/ phase # "playing" \/ currentPlayerId # playerId
                  \/ hands[playerId] = << >>
               THEN Handled("hint", playerId, "ignored", "", << >>)
               ELSE generateHint(hands[playerId])
    /\ UNCHANGED << gameVars, leader, passers, firstOut >>

\* Hud.handleHint, the one emitter of hintRequest: the hint button asks for
\* the player whose turn it is
HintRequest ==
    /\ last = Idle
    /\ handleHintRequest(currentPlayerId)
    /\ UNCHANGED aiVars

\* ------------------------------------------------------------------------
\* AISystem: the decisions of the computer players
\* ------------------------------------------------------------------------

\* shouldAIPlayOffensively(gameState, playerId, remainingCards)
shouldAIPlayOffensively(playerId, remainingCards) ==
    LET isLandlord == role[playerId] = "landlord"
    IN  IF remainingCards <= 5 THEN TRUE
        ELSE IF isLandlord /\ remainingCards <= 10 THEN TRUE
        ELSE IF ~isLandlord /\ remainingCards <= 8 THEN TRUE
        ELSE remainingCards <= 6

\* World.initWorld: createPlayer(this, 0, 'Player', false), and the players
\* 1 and 2 with isAI = true
isAI(playerId) == playerId # 0

\* complexityOrder of AISystem.analyzeLastPlay
complexityOrder(type) ==
    CASE type = "rocket" -> 1000
      [] type = "bomb" -> 900
      [] type = "plane_pair" -> 800
      [] type = "plane_single" -> 700
      [] type = "four_pair" -> 600
      [] type = "four_single" -> 500
      [] type = "triple_pair" -> 400
      [] type = "triple_single" -> 300
      [] type = "straight_pair" -> 200
      [] type = "straight" -> 100
      [] type = "plane" -> 80
      [] type = "triple" -> 70
      [] type = "pair" -> 60
      [] type = "single" -> 10
      [] OTHER -> 0

\* AISystem.analyzeLastPlay: the first combination found in the cards of the
\* last play for one card, and for more cards the one the reduce keeps, the
\* earliest of those of the highest complexity and, in it, the highest power
aiAnalyzeLastPlay(lastPlayCards) ==
    LET better(a, b) ==
            \/ complexityOrder(a.type) > complexityOrder(b.type)
            \/ complexityOrder(a.type) = complexityOrder(b.type) /\ a.power > b.power
        best(combinations) ==
            CHOOSE i \in DOMAIN combinations :
                /\ \A j \in DOMAIN combinations : ~better(combinations[j], combinations[i])
                /\ \A j \in 1 .. (i - 1) : better(combinations[i], combinations[j])
        kept(combinations) ==
            IF Len(combinations) = 0 THEN NoCombo
            ELSE IF Len(lastPlayCards) > 1 THEN combinations[best(combinations)]
            ELSE combinations[1]
    IN  kept(analyzeCards(lastPlayCards))

\* handleAIPlaying: the combinations of the hand the AI keeps as playable
aiPlayableCombinations(playerId) ==
    LET playable(allCombinations, lastPlayCombination) ==
            IF lastPlayCombination # NoCombo
            THEN SelectSeq(allCombinations, LAMBDA combo : canBeat(combo, lastPlayCombination))
            ELSE allCombinations
    IN  playable(analyzeCards(hands[playerId]),
                 IF lastPlay # Null /\ Len(lastPlay) > 0 /\ lastPlayOwnerId # playerId
                 THEN aiAnalyzeLastPlay(lastPlay) ELSE NoCombo)

\* AISystem.aiThinkingTime, in milliseconds
aiThinkingTime == 1000

\* cards.join(','): every entity of the list being undefined, which join
\* prints as the empty string, the list prints as its commas
joinEntities(entities) ==
    IF entities = << >> THEN ""
    ELSE << "", ",", ",,", ",,,", ",,,,", ",,,,," >>[Len(entities)]

\* the invalidPlay listener of AISystem: the Map m after the event of the
\* handled request, which carries the player and the reason and no cards
handleInvalidPlay(m, handled) ==
    LET playerId == handled.playerId
        cardsString == ""
        existing == m[playerId]
    IN  IF ~(\E i \in DOMAIN handled.events : handled.events[i] = "invalidPlay")
           \/ ~isAI(playerId)
        THEN m
        ELSE IF existing # NoInvalidPlay /\ existing.cards = cardsString
        THEN [ m EXCEPT ![playerId] = [ existing EXCEPT !.attempts = @ + 1 ] ]
        ELSE [ m EXCEPT ![playerId] = [ cards |-> cardsString, attempts |-> 1 ] ]

validateAIChoice(combination, playerId) ==
    LET cardsString == joinEntities([ i \in DOMAIN combination.cards |->
                                        EntityOf(combination.cards[i]) ])
        existing == lastInvalidPlay[playerId]
    IN  ~(existing # NoInvalidPlay /\ existing.cards = cardsString /\ existing.attempts >= 2)

\* typeOrder of AISystem.fallbackAIChoice
typeOrder(type) ==
    CASE type = "single" -> 1
      [] type = "pair" -> 2
      [] type = "triple" -> 3
      [] type = "straight" -> 4
      [] type = "triple_single" -> 5
      [] type = "triple_pair" -> 6
      [] type = "straight_pair" -> 7
      [] type = "plane" -> 8
      [] type = "plane_single" -> 9
      [] type = "plane_pair" -> 10
      [] type = "four_single" -> 11
      [] type = "four_pair" -> 12
      [] type = "bomb" -> 13
      [] type = "rocket" -> 14
      [] OTHER -> 99

\* fallbackAIChoice: the first entry of the list sorted, stably, by fewer
\* cards, then lower power, then simpler type
fallbackAIChoice(combinations) ==
    LET before(a, b) ==
            IF Len(a.cards) # Len(b.cards) THEN Len(a.cards) < Len(b.cards)
            ELSE IF a.power # b.power THEN a.power < b.power
            ELSE typeOrder(a.type) < typeOrder(b.type)
    IN  IF Len(combinations) = 0
        THEN NoCombo
        ELSE combinations[CHOOSE i \in DOMAIN combinations :
                /\ \A j \in DOMAIN combinations : ~before(combinations[j], combinations[i])
                /\ \A j \in 1 .. (i - 1) : before(combinations[i], combinations[j])]

chooseAICombination(combinations, playerId) ==
    LET remainingCards == Len(hands[playerId])
        isOffensive == shouldAIPlayOffensively(playerId, remainingCards)
        chosen(strategicRecommendation, fallback) ==
            IF Len(combinations) = 0 THEN NoCombo
            ELSE IF strategicRecommendation # NoRecommendation
            THEN IF validateAIChoice(strategicRecommendation.combination, playerId)
                 THEN strategicRecommendation.combination
                 ELSE fallback
            ELSE fallback
    IN  chosen(generateStrategicRecommendation(analyzeCards(hands[playerId]), combinations,
                                               remainingCards, isOffensive),
               fallbackAIChoice(combinations))

\* the count of the play requests of AISystem refused with an invalidPlay
\* event, after the handled request
CountRejected(handled) ==
    IF handled.result = "accepted"
    THEN [ rejectedPlays EXCEPT ![handled.playerId] = 0 ]
    ELSE IF handled.op = "play" /\ handled.events # << >>
    THEN [ rejectedPlays EXCEPT ![handled.playerId] = @ + 1 ]
    ELSE rejectedPlays

\* the callback returns without a request
AIReturns(playerId) ==
    /\ last' = Handled("ai", playerId, "ignored", "", << >>)
    /\ UNCHANGED << gameVars, leader, passers, firstOut, lastInvalidPlay, rejectedPlays >>

\* emit(PassTurnRequest) with the Map m: handlePass runs, and the listener
\* of AISystem on the invalidPlay it may emit
AIPasses(playerId, m) ==
    /\ handlePass(playerId)
    /\ lastInvalidPlay' = handleInvalidPlay(m, last')
    /\ rejectedPlays' = CountRejected(last')

\* emit(PlayCardsRequest) with the Map m
AIPlays(playerId, cardEntities, m) ==
    /\ handlePlay(playerId, cardEntities)
    /\ lastInvalidPlay' = handleInvalidPlay(m, last')
    /\ rejectedPlays' = CountRejected(last')

\* handleAIPlaying: the request the AI makes for the player, handled as it
\* is emitted
handleAIPlaying(playerId) ==
    LET lastInvalid == lastInvalidPlay[playerId]
        forgotten == [ lastInvalidPlay EXCEPT ![playerId] = NoInvalidPlay ]
        request(chosenCombination) ==
            IF lastInvalid # NoInvalidPlay /\ lastInvalid.attempts >= 3
            THEN [ op |-> "pass", cards |-> << >>, m |-> forgotten ]
            ELSE IF chosenCombination # NoCombo
            THEN [ op |-> "play",
                   cards |-> [ i \in DOMAIN chosenCombination.cards |->
                                 EntityOf(chosenCombination.cards[i]) ],
                   m |-> forgotten ]
            ELSE [ op |-> "pass", cards |-> << >>, m |-> forgotten ]
        decision(allCombinations, playable) ==
            IF hands[playerId] = << >>
            THEN [ op |-> "return", cards |-> << >>, m |-> lastInvalidPlay ]
            ELSE IF Len(allCombinations) = 0 \/ Len(playable) = 0
            THEN [ op |-> "pass", cards |-> << >>, m |-> lastInvalidPlay ]
            ELSE request(chooseAICombination(playable, playerId))
    IN  \E d \in { decision(analyzeCards(hands[playerId]), aiPlayableCombinations(playerId)) } :
            CASE d.op = "return" -> AIReturns(playerId)
              [] d.op = "pass" -> AIPasses(playerId, d.m)
              [] OTHER -> AIPlays(playerId, d.cards, d.m)

\* handleAIBidding: lucky and luckier are the outcomes of the two draws of
\* Math.random
handleAIBidding(playerId) ==
    LET highValueCards == Len(SelectSeq(hands[playerId], LAMBDA c : CardValue(c) >= 11))
    IN  \E lucky, luckier \in BOOLEAN :
            LET bidAmount == IF highValueCards >= 5 THEN Min(3, currentBid + 1)
                             ELSE IF highValueCards >= 3 /\ lucky THEN Min(2, currentBid + 1)
                             ELSE IF highValueCards >= 2 /\ luckier THEN Min(1, currentBid + 1)
                             ELSE 0
            IN  /\ handleBidRequest(playerId, IF bidAmount > currentBid THEN bidAmount ELSE 0)
                /\ UNCHANGED << lastInvalidPlay, rejectedPlays >>

\* AISystem.update that sets a callback although one is pending
AISystemUpdateUnguarded(delta) ==
    IF phase = "finished" \/ ~isAI(currentPlayerId)
    THEN UNCHANGED << isThinking, lastThinkTime, aiTimers >>
    ELSE IF lastThinkTime + delta < aiThinkingTime
    THEN /\ lastThinkTime' = lastThinkTime + delta
         /\ UNCHANGED << isThinking, aiTimers >>
    ELSE /\ lastThinkTime' = 0
         /\ isThinking' = TRUE
         /\ aiTimers' = Append(aiTimers, currentPlayerId)

\* AISystem.update: the thinking time of the AI player to move runs, and
\* when it is over a callback is set for that player
AISystemUpdate(delta) ==
    IF phase = "finished" \/ isThinking \/ ~isAI(currentPlayerId)
    THEN UNCHANGED << isThinking, lastThinkTime, aiTimers >>
    ELSE IF lastThinkTime + delta < aiThinkingTime
    THEN /\ lastThinkTime' = lastThinkTime + delta
         /\ UNCHANGED << isThinking, aiTimers >>
    ELSE /\ lastThinkTime' = 0
         /\ isThinking' = TRUE
         /\ aiTimers' = Append(aiTimers, currentPlayerId)

\* ------------------------------------------------------------------------
\* Inputs of the collaborators (UI, AI, timers, frame ticker)
\* ------------------------------------------------------------------------
BidAmounts == (0 - 1) .. (MaxBid + 1)

\* the lists of at most n distinct cards of S, in ascending id order (a
\* request carries the cards of a selection set or of a combination found
\* in a hand; the handlers do not depend on the order)
CardLists(S, n) ==
    { s \in UNION { [ 1 .. k -> S ] : k \in 0 .. n } :
        \A i \in 1 .. (Len(s) - 1) : s[i] < s[i + 1] }

SmallInputs == CardLists(SmallDeck, MaxPlayLen)

\* handlePlay returns before it reads the cards of a request made out of turn
\* or out of phase: one card list stands for all of them
PlayInputs(playerId, lists) ==
    IF phase = "playing" /\ playerId = currentPlayerId THEN lists ELSE { << >> }

\* The event loop runs one task at a time, each to completion: a request of
\* the UI or the AI, a timer callback, or a frame of the ticker.
SubmitBid(amounts) ==
    /\ last = Idle
    /\ \E playerId \in Players, amount \in amounts : handleBidRequest(playerId, amount)
    /\ UNCHANGED aiVars

SubmitPlay(playerId, lists) ==
    /\ last = Idle
    /\ \E cards \in PlayInputs(playerId, lists) : handlePlay(playerId, cards)
    /\ UNCHANGED aiVars

BidRequest == SubmitBid(BidAmounts)

PlayCardsRequest == \E playerId \in Players : SubmitPlay(playerId, SmallInputs)

PassTurnRequest ==
    /\ last = Idle
    /\ \E playerId \in Players : handlePass(playerId)
    /\ UNCHANGED aiVars

LandlordTimer ==
    /\ last = Idle
    /\ timers # << >>
    /\ timers' = Tail(timers)
    /\ integrateLandlordCards(Head(timers))
    /\ UNCHANGED aiVars

Frame ==
    /\ last = Idle
    /\ WinConditionUpdate
    /\ UNCHANGED aiVars

\* the task ends and its notifications have been delivered
TaskEnd ==
    /\ last # Idle
    /\ last' = Idle
    /\ UNCHANGED << gameVars, leader, passers, firstOut, aiVars >>

Next ==
    \/ BidRequest
    \/ PlayCardsRequest
    \/ PassTurnRequest
    \/ HintRequest
    \/ LandlordTimer
    \/ Frame
    \/ TaskEnd

Spec == Init /\ [][Next]_vars

\* The event loop runs every queued task in its turn: a handler that has
\* started returns, and the timer set by endBidding fires although requests
\* and frames keep arriving.
Fairness == WF_vars(TaskEnd) /\ SF_vars(LandlordTimer)

\* The players keep the game going and the ticker keeps running: the player
\* to move who can make a request that is accepted makes one, and the frame
\* with the win check runs although requests keep arriving.
AcceptedTurn ==
    /\ PlayCardsRequest \/ PassTurnRequest
    /\ last'.result = "accepted"

PlayingFairness == WF_vars(TaskEnd) /\ SF_vars(Frame) /\ SF_vars(AcceptedTurn)

SpecPlaying == Init /\ [][Next]_vars /\ PlayingFairness

\* ------------------------------------------------------------------------
\* The opening of the game: the bidding rounds and the entry into Playing.
\* No player selects a card, so every play request carries an empty list.
\* ------------------------------------------------------------------------
OpeningPlayCardsRequest ==
    \E playerId \in Players : SubmitPlay(playerId, CardLists(SmallDeck, 0))

NextOpening ==
    \/ BidRequest
    \/ OpeningPlayCardsRequest
    \/ PassTurnRequest
    \/ LandlordTimer
    \/ Frame
    \/ TaskEnd

SpecOpening == Init /\ [][NextOpening]_vars /\ Fairness

\* ------------------------------------------------------------------------
\* The plane deal: players pass or call three, and select for a play all
\* the cards of their hand whose value lies in a range
\* ------------------------------------------------------------------------
PlaneBidAmounts == { 0, MaxBid }

RangeSelections(hand) ==
    { SelectSeq(hand, LAMBDA c : lo <= CardValue(c) /\ CardValue(c) <= hi) :
        lo \in { CardValue(c) : c \in Range(hand) },
        hi \in { CardValue(c) : c \in Range(hand) } }

PlaneBidRequest == SubmitBid(PlaneBidAmounts)

PlanePlayCardsRequest ==
    \E playerId \in Players : SubmitPlay(playerId, RangeSelections(hands[playerId]))

InitPlane == InitWorld(PlaneShuffle)

NextPlane ==
    \/ PlaneBidRequest
    \/ PlanePlayCardsRequest
    \/ PassTurnRequest
    \/ LandlordTimer
    \/ Frame
    \/ TaskEnd

SpecPlane == InitPlane /\ [][NextPlane]_vars

\* ------------------------------------------------------------------------
\* Positions of the Playing phase with the full deck.  Player 0 is the
\* landlord and, as player 2, is down to one card, a 10; the four 10s are
\* kept out of the cards that players 1 and 0 hold or have played.  Those
\* cards are blocks (m cards of each value of a run) alone or followed by a
\* second block: every shape the classifier tests, and their near misses.
\* A player selects for a play all the cards of the hand.
\* ------------------------------------------------------------------------
\* Bounds on the number of cards of the first and of the second block.
MaxCore == 9
MaxWings == 4

SpareCards == << FullCard(10, 1), FullCard(10, 2), FullCard(10, 3), FullCard(10, 4) >>

\* m cards of each of the len values from lo on: the first m of the four
\* cards of the value, or its last m when top
Block(lo, len, m, top) ==
    [ i \in 1 .. (len * m) |->
        FullCard(lo + ((i - 1) \div m), (IF top THEN 4 - m ELSE 0) + 1 + ((i - 1) % m)) ]

Blocks(starts, maxCards, maxM, top) ==
    { Block(x[1], x[2], x[3], top) :
        x \in { y \in starts \X (1 .. maxCards) \X (1 .. maxM) :
                  /\ y[2] * y[3] <= maxCards
                  /\ y[1] + y[2] - 1 <= TwoValue + 2
                  /\ y[1] + y[2] - 1 > TwoValue => y[3] = 1
                  /\ \A i \in DOMAIN SpareCards :
                        CardValue(SpareCards[i]) \notin y[1] .. (y[1] + y[2] - 1) } }

Values(cs) == { CardValue(cs[i]) : i \in DOMAIN cs }

Shapes(starts, top) ==
    LET cores == Blocks(starts, MaxCore, 4, top)
        wings == { << >> } \cup Blocks(starts, MaxWings, 2, top)
    IN  { x[1] \o x[2] :
            x \in { y \in cores \X wings : Values(y[1]) \cap Values(y[2]) = { } } }

\* a position of the Playing phase: the landlord's play `standing` (or
\* Null, with the lead) is before player 1, who holds `hand`
Position(standing, hand) ==
    /\ phase = "playing"
    /\ currentPlayerId = 1
    /\ lastPlay = standing
    /\ lastPlayOwnerId = IF standing = Null THEN NoPlayer ELSE 0
    /\ landlordCards = SubSeq(SpareCards, 2, 4)
    /\ winner = "none"
    /\ passCount = 0
    /\ bidHistory = << [ playerId |-> 0, bid |-> MaxBid ] >>
    /\ currentBid = MaxBid
    /\ landlordId = 0
    /\ hands = [ p \in Players |->
                   IF p = 1 THEN hand ELSE << SpareCards[IF p = 0 THEN 2 ELSE 1] >> ]
    /\ role = [ p \in Players |-> IF p = 0 THEN "landlord" ELSE "farmer" ]
    /\ timers = << >>
    /\ last = Idle
    /\ leader = IF standing = Null THEN 1 ELSE 0
    /\ passers = IF standing = Null THEN { 0, 2 } ELSE { }
    /\ firstOut = NoPlayer
    /\ AIInit

\* a player puts the whole hand on the table
TablePlayCardsRequest ==
    \E playerId \in Players : SubmitPlay(playerId, { hands[playerId] })

NextTable ==
    \/ TablePlayCardsRequest
    \/ PassTurnRequest
    \/ Frame
    \/ TaskEnd

\* Player 1 has the lead with any hand of the shapes
LeadStarts == (3 .. (TwoValue + 2))

InitLead == \E hand \in Shapes(LeadStarts, FALSE) : Position(Null, hand)

SpecLead == InitLead /\ [][NextTable]_vars

\* Player 1 answers a combination of the landlord with a combination
ResponseStarts == { 3, 5, TwoValue, TwoValue + 1 }

IsCombination(cs) == analyzePlay(cs).type # "invalid"

InitResponse ==
    \E standing \in { cs \in Shapes(ResponseStarts, TRUE) : IsCombination(cs) },
       hand \in { cs \in Shapes(ResponseStarts, FALSE) : IsCombination(cs) } :
        /\ Range(standing) \cap Range(hand) = { }
        /\ Position(standing, hand)

SpecResponse == InitResponse /\ [][NextTable]_vars

\* ------------------------------------------------------------------------
\* Hint positions: the human player is to move
\* ------------------------------------------------------------------------
\* a position of the Playing phase: the play `standing` of player 2 (or
\* Null, with the lead) is before player 0, the human player, who holds `hand`
HintPosition(standing, hand) ==
    /\ phase = "playing"
    /\ currentPlayerId = 0
    /\ lastPlay = standing
    /\ lastPlayOwnerId = IF standing = Null THEN NoPlayer ELSE 2
    /\ landlordCards = SubSeq(SpareCards, 2, 4)
    /\ winner = "none"
    /\ passCount = 0
    /\ bidHistory = << [ playerId |-> 0, bid |-> MaxBid ] >>
    /\ currentBid = MaxBid
    /\ landlordId = 0
    /\ hands = [ p \in Players |->
                   IF p = 0 THEN hand ELSE << SpareCards[p] >> ]
    /\ role = [ p \in Players |-> IF p = 0 THEN "landlord" ELSE "farmer" ]
    /\ timers = << >>
    /\ last = Idle
    /\ leader = IF standing = Null THEN 0 ELSE 2
    /\ passers = IF standing = Null THEN { 1, 2 } ELSE { }
    /\ firstOut = NoPlayer
    /\ AIInit

HintStarts == { 3, TwoValue }
StandingStarts == { 4, TwoValue + 1 }

InitHint ==
    \E standing \in { Null } \cup { cs \in Shapes(StandingStarts, TRUE) : IsCombination(cs) },
       hand \in Shapes(HintStarts, FALSE) :
        /\ standing # Null => Range(standing) \cap Range(hand) = { }
        /\ HintPosition(standing, hand)

NextHint ==
    \/ HintRequest
    \/ TablePlayCardsRequest
    \/ PassTurnRequest
    \/ Frame
    \/ TaskEnd

SpecHint == InitHint /\ [][NextHint]_vars

\* ------------------------------------------------------------------------
\* Requests that may list a card more than once
\* ------------------------------------------------------------------------
\* the lists of at most n cards of S in ascending id order, a card possibly
\* repeated: the payload of playCardsRequest is an array of entities
RepeatingLists(S, n) ==
    { s \in UNION { [ 1 .. k -> S ] : k \in 0 .. n } :
        \A i \in 1 .. (Len(s) - 1) : s[i] <= s[i + 1] }

RepeatPlayCardsRequest ==
    \E playerId \in Players : SubmitPlay(playerId, RepeatingLists(SmallDeck, MaxPlayLen))

NextRepeat ==
    \/ BidRequest
    \/ RepeatPlayCardsRequest
    \/ PassTurnRequest
    \/ HintRequest
    \/ LandlordTimer
    \/ Frame
    \/ TaskEnd

SpecRepeat == Init /\ [][NextRepeat]_vars

\* ------------------------------------------------------------------------
\* The game as it is played: the human player 0 makes requests with the
\* buttons of the Hud, shown when it is that player's turn, and AISystem
\* makes the requests of the players 1 and 2.
\* ------------------------------------------------------------------------
\* Bound on the play requests of one AI player refused in a row that are
\* followed: the callback of a player who has reached it is left pending
MaxRetries == 4

\* the time since the last frame, in milliseconds
Deltas == { 500, 1000 }

\* the bid buttons: a bid above the current one, or Pass
HudBidRequest ==
    /\ last = Idle
    /\ phase = "bidding" /\ currentPlayerId = 0
    /\ \E amount \in 0 .. MaxBid :
          /\ amount = 0 \/ currentBid < amount
          /\ handleBidRequest(0, amount)
    /\ UNCHANGED aiVars

\* the Play button, with cards of the hand selected
HudPlayCardsRequest ==
    /\ last = Idle
    /\ phase = "playing" /\ currentPlayerId = 0
    /\ \E cards \in CardLists(Range(hands[0]), MaxPlayLen) \ { << >> } : handlePlay(0, cards)
    /\ UNCHANGED aiVars

\* the Pass button
HudPassTurnRequest ==
    /\ last = Idle
    /\ phase = "playing" /\ currentPlayerId = 0
    /\ handlePass(0)
    /\ UNCHANGED aiVars

\* World.update: AISystem.update, then WinConditionSystem.update
AIFrame ==
    /\ last = Idle
    /\ \E delta \in Deltas : AISystemUpdate(delta)
    /\ WinConditionUpdate
    /\ UNCHANGED << lastInvalidPlay, rejectedPlays >>

\* the callback AISystem.update has set runs for the player it was set for
AITimer ==
    /\ last = Idle
    /\ aiTimers # << >>
    /\ rejectedPlays[Head(aiTimers)] < MaxRetries
    /\ aiTimers' = Tail(aiTimers)
    /\ isThinking' = FALSE
    /\ UNCHANGED lastThinkTime
    /\ IF phase = "bidding" THEN handleAIBidding(Head(aiTimers))
       ELSE IF phase = "playing" THEN handleAIPlaying(Head(aiTimers))
       ELSE AIReturns(Head(aiTimers))

NextAI ==
    \/ HudBidRequest
    \/ HudPlayCardsRequest
    \/ HudPassTurnRequest
    \/ AIFrame
    \/ AITimer
    \/ LandlordTimer
    \/ TaskEnd

SpecAI == Init /\ [][NextAI]_vars

\* ------------------------------------------------------------------------
\* Properties
\* ------------------------------------------------------------------------
Requests == { "bid", "play", "pass" }

\* the step is the handling of one request
HandlesRequest == last = Idle /\ last'.op \in Requests

\* C1: every accepted bid, play or pass request names the player whose turn
\* it is when the request is handled; a request of any other player is
\* rejected on the spot and leaves nothing behind (no state change, no
\* pending timer), whenever it arrives.
AcceptedOnlyFromCurrentPlayer ==
    [][ HandlesRequest =>
          /\ (last'.result = "accepted" => last'.playerId = currentPlayerId)
          /\ (last'.playerId # currentPlayerId =>
                 last'.result = "rejected" /\ gameVars' = gameVars) ]_vars

\* a player other than the current one has just asked to pass on a standing
\* play of a third player, and was rejected
OutOfTurnPassRejected ==
    /\ last.op = "pass" /\ last.result = "rejected"
    /\ phase = "playing" /\ lastPlay # Null
    /\ last.playerId # currentPlayerId /\ last.playerId # lastPlayOwnerId

\* the fields a rejection must leave alone
ruleVars ==
    << phase, currentPlayerId, lastPlay, lastPlayOwnerId, passCount, currentBid, landlordId,
       bidHistory, hands >>

\* C2: every rejected bid, play or pass request, rejected for whatever
\* reason, leaves phase, currentPlayerId, lastPlay, lastPlayOwnerId,
\* passCount, currentBid, landlordId, bidHistory and all hands unchanged.
RejectionChangesNothing ==
    [][ (HandlesRequest /\ last'.result = "rejected") => ruleVars' = ruleVars ]_vars

\* the current player, holding the cards, has just been refused a play that
\* does not beat the standing play
WeakPlayRejected ==
    /\ last.op = "play" /\ last.result = "rejected"
    /\ last.reason = "Must play higher value cards"
    /\ last.playerId = currentPlayerId

\* the step is the handling of a request of kind op that is accepted
Accepts(op) == HandlesRequest /\ last'.op = op /\ last'.result = "accepted"

\* hand `after` is hand `before` without the cards of C, in the same order
IsHandMinus(after, before, C) ==
    /\ Range(after) = Range(before) \ Range(C)
    /\ \A i, j \in DOMAIN after : i # j => after[i] # after[j]
    /\ \A i, j \in DOMAIN after : i < j =>
          \E k, l \in DOMAIN before : k < l /\ before[k] = after[i] /\ before[l] = after[j]

\* C4: an accepted play of player p with cards C leaves p's hand equal to
\* its previous hand minus C and the two other hands as they were, and sets
\* lastPlay = C, lastPlayOwnerId = p, passCount = 0 and
\* currentPlayerId = (p + 1) mod 3.
AcceptedPlayEffect ==
    [][ Accepts("play") =>
          LET p == last'.playerId
              C == last'.cards
          IN  /\ IsHandMinus(hands'[p], hands[p], C)
              /\ \A q \in Players \ { p } : hands'[q] = hands[q]
              /\ lastPlay' = C
              /\ lastPlayOwnerId' = p
              /\ passCount' = 0
              /\ currentPlayerId' = (p + 1) % 3 ]_vars

\* a play of two cards has just been accepted and its player keeps cards
PairPlayedAfterPass ==
    /\ last.op = "play" /\ last.result = "accepted"
    /\ Len(last.cards) = 2
    /\ passers = { } /\ leader = last.playerId
    /\ hands[last.playerId] # << >>

\* C6: a pass request of the current player in the Playing phase is rejected
\* when there is no lastPlay or when the requester owns lastPlay; in every
\* other case it is accepted, is counted as one more pass (passCount goes up
\* by one, unless it is the second pass, which clears the trick), moves the
\* turn to (currentPlayerId + 1) mod 3 and changes no hand.
PassRule ==
    [][ (HandlesRequest /\ last'.op = "pass" /\ phase = "playing"
           /\ last'.playerId = currentPlayerId) =>
          IF lastPlay = Null \/ lastPlayOwnerId = last'.playerId
          THEN last'.result = "rejected"
          ELSE /\ last'.result = "accepted"
               /\ \/ passCount' = passCount + 1 /\ lastPlay' = lastPlay
                  \/ /\ passCount + 1 = NumPlayers - 1
                     /\ passCount' = 0 /\ lastPlay' = Null
               /\ passers' = passers \cup { last'.playerId }
               /\ last'.playerId \notin passers
               /\ currentPlayerId' = (currentPlayerId + 1) % 3
               /\ hands' = hands ]_vars

\* the first pass on a standing play has just been accepted
FirstPassAccepted ==
    /\ last.op = "pass" /\ last.result = "accepted"
    /\ passCount = 1 /\ lastPlay # Null

\* the card lists of the input set that are made of cards of the hand of
\* player p and classify to a combination
Combinations(p) ==
    { cs \in SmallInputs :
        Range(cs) \subseteq Range(hands[p]) /\ analyzePlay(cs).type # "invalid" }

\* handlePlay can accept the request
CanAccept(p, cs) == ENABLED (handlePlay(p, cs) /\ last'.result = "accepted")

\* C7: free lead: while lastPlay is null, every non-Invalid combination made
\* of cards of the current player's hand is accepted, of whatever type,
\* length or power.
FreeLeadAcceptsAll ==
    (phase = "playing" /\ lastPlay = Null) =>
        \A cs \in Combinations(currentPlayerId) : CanAccept(currentPlayerId, cs)

\* the landlord opens the game with both a single and a pair to choose from
OpeningLeadChoice ==
    /\ phase = "playing" /\ lastPlay = Null /\ leader = NoPlayer /\ last = Idle
    /\ \E a, b \in Combinations(currentPlayerId) :
          analyzePlay(a).type = "single" /\ analyzePlay(b).type = "pair"

\* C10: a bid request is accepted only if the phase is Bidding, the requester
\* is the current player and has no entry in bidHistory yet, and the amount
\* is 0 or is strictly greater than currentBid and at most 3; bidHistory
\* never holds two entries of one player nor more than three entries.
BidAcceptedOnlyIfLegal ==
    /\ [][ Accepts("bid") =>
             /\ phase = "bidding"
             /\ last'.playerId = currentPlayerId
             /\ \A i \in DOMAIN bidHistory : bidHistory[i].playerId # last'.playerId
             /\ \/ last'.amount = 0
                \/ last'.amount > currentBid /\ last'.amount <= 3 ]_vars
    /\ [](/\ Len(bidHistory) <= 3
          /\ \A i, j \in DOMAIN bidHistory :
                i # j => bidHistory[i].playerId # bidHistory[j].playerId)

\* the second bidder has just outbid the first
SecondBidRaised ==
    /\ last.op = "bid" /\ last.result = "accepted"
    /\ Len(bidHistory) = 2
    /\ bidHistory[1].bid = 1 /\ bidHistory[2].bid = 2 /\ currentBid = 2

\* C5: round clear: once the two other players have passed, with their
\* passes accepted, on the accepted play of player P, the turn is back with P,
\* lastPlay and lastPlayOwnerId are null and passCount is 0, and while the
\* game is in play any combination P submits next is accepted as a free lead,
\* without comparison with the cleared play.
RoundClear ==
    \A P \in Players :
        (leader = P /\ passers = Players \ { P }) =>
            /\ currentPlayerId = P
            /\ lastPlay = Null
            /\ lastPlayOwnerId = NoPlayer
            /\ passCount = 0
            /\ phase = "playing" => \A cs \in Combinations(P) : CanAccept(P, cs)

\* both other players have passed on a play and its player still holds a
\* pair and a single to lead with
TrickWonWithChoice ==
    /\ phase = "playing" /\ leader # NoPlayer /\ passers = Players \ { leader }
    /\ last.op = "pass"
    /\ \E a, b \in Combinations(leader) : Len(a) = 1 /\ Len(b) = 2

\* The beat rule as the specification states it: a rocket beats everything;
\* a bomb beats everything but a rocket and a strictly higher bomb; any
\* other candidate needs the type of the reference, for the types of
\* variable length also its number of cards, and a strictly greater power.
VariableLengthTypes ==
    { "straight", "straight_pair", "plane", "plane_single", "plane_pair" }

BeatsByRule(candidate, reference) ==
    IF candidate.type = "rocket" THEN TRUE
    ELSE IF candidate.type = "bomb"
    THEN /\ reference.type # "rocket"
         /\ ~(reference.type = "bomb" /\ reference.power > candidate.power)
    ELSE /\ candidate.type = reference.type
         /\ candidate.type \in VariableLengthTypes =>
                Len(candidate.cards) = Len(reference.cards)
         /\ candidate.power > reference.power

\* C3: a play request is accepted only if every submitted card is in the
\* requester's hand, the cards classify to a non-Invalid combination, and,
\* when lastPlay exists and belongs to another player, the combination
\* beats lastPlay under the beat rule.
PlayAcceptedOnlyIfLegal ==
    [][ Accepts("play") =>
          LET p == last'.playerId
              C == last'.cards
          IN  /\ Range(C) \subseteq Range(hands[p])
              /\ analyzePlay(C).type # "invalid"
              /\ (lastPlay # Null /\ lastPlayOwnerId # p) =>
                     BeatsByRule(analyzePlay(C), analyzePlay(lastPlay)) ]_vars

\* C8: once an accepted play has left its player with no cards, the game is
\* over: no play and no pass request of any player is accepted after it,
\* however the later requests interleave with the frames of the win check.
NothingAcceptedAfterEmptyHand ==
    [][ firstOut # NoPlayer => ~(Accepts("play") \/ Accepts("pass")) ]_vars

\* the team of player p
TeamOf(p) == IF role[p] = "landlord" THEN "landlord" ELSE "farmers"

\* C9: when the game is Finished the winner is the team of the player who
\* first emptied their hand, 'landlord' if that player has the Landlord role
\* and 'farmers' otherwise; before Finished the winner is 'none'.
WinnerIsFirstOut ==
    IF phase = "finished"
    THEN firstOut # NoPlayer /\ winner = TeamOf(firstOut)
    ELSE winner = "none"

\* the highest amount recorded in bidHistory, 0 when there is none
HighestBid ==
    IF \E i \in DOMAIN bidHistory : bidHistory[i].bid > 0
    THEN CHOOSE b \in { bidHistory[i].bid : i \in DOMAIN bidHistory } :
            \A i \in DOMAIN bidHistory : bidHistory[i].bid <= b
    ELSE 0

\* C11: within a bidding round currentBid is the highest amount recorded in
\* bidHistory (0 when no positive bid exists) and landlordId is the player
\* who made that bid (null exactly when currentBid is 0); an accepted bid of
\* 0 changes neither currentBid nor landlordId.
BidStateFollowsHistory ==
    /\ [](/\ currentBid = HighestBid
          /\ landlordId = NoPlayer <=> currentBid = 0
          /\ currentBid > 0 =>
                \E i \in DOMAIN bidHistory :
                    bidHistory[i].bid = currentBid /\ bidHistory[i].playerId = landlordId)
    /\ [][ (Accepts("bid") /\ last'.amount = 0) =>
             currentBid' = currentBid /\ landlordId' = landlordId ]_vars

\* the second bidder has just passed on a standing bid of the first
PassAfterBid ==
    /\ last.op = "bid" /\ last.result = "accepted" /\ last.amount = 0
    /\ Len(bidHistory) = 2 /\ bidHistory[1].bid > 0
    /\ landlordId = bidHistory[1].playerId

\* the bidding has ended with a landlord: a player has bid 3 or all three
\* have bid, and some bid is positive
BiddingWon ==
    /\ phase = "bidding"
    /\ \/ \E i \in DOMAIN bidHistory : bidHistory[i].bid = 3
       \/ Len(bidHistory) = 3
    /\ \E i \in DOMAIN bidHistory : bidHistory[i].bid > 0

\* the game has just entered Playing: the landlord holds its dealt cards and
\* the three bonus cards, each once, has the turn, and leads
LandlordLeads ==
    /\ last.op = "integrate"
    /\ phase = "playing"
    /\ landlordId # NoPlayer
    /\ currentPlayerId = landlordId
    /\ lastPlay = Null
    /\ Len(hands[landlordId]) = Len(DealtHand(SmallShuffle, landlordId)) + 3
    /\ Range(hands[landlordId]) =
          Range(DealtHand(SmallShuffle, landlordId)) \cup Range(landlordCards)
    /\ \A q \in Players \ { landlordId } : hands[q] = DealtHand(SmallShuffle, q)

\* C12: when a player has bid 3 or all three players have bid, with at least
\* one positive bid, the game eventually enters Playing with the landlord's
\* hand grown by exactly the three bonus cards, added once,
\* currentPlayerId = landlordId and lastPlay null.
BiddingWonLeadsToPlaying == BiddingWon ~> LandlordLeads

\* the last of three bidders passed and the first bidder, the landlord, has
\* just received the bonus cards and the turn
FirstBidderBecomesLandlord ==
    /\ LandlordLeads
    /\ Len(bidHistory) = 3 /\ bidHistory[3].bid = 0
    /\ bidHistory[1].playerId = landlordId

\* the step is the accepted third bid of a round in which nobody has bid
\* above 0
AllPass ==
    /\ Accepts("bid") /\ last'.amount = 0
    /\ Len(bidHistory) = 2
    /\ \A i \in DOMAIN bidHistory : bidHistory[i].bid = 0

\* C13: when all three players have bid 0 the round is voided: no landlord
\* is assigned, no hand changes, the phase stays Bidding with no transition
\* to Playing pending, and currentBid = 0, landlordId = null and bidHistory
\* is empty, so that every player may bid again when the turn reaches them.
AllPassVoidsRound ==
    /\ [][ AllPass =>
             /\ landlordId' = NoPlayer
             /\ role' = [ p \in Players |-> "farmer" ]
             /\ hands' = hands
             /\ phase' = "bidding"
             /\ timers' = << >>
             /\ currentBid' = 0
             /\ bidHistory' = << >> ]_vars
    /\ []((phase = "bidding" /\ bidHistory = << >>) =>
             \A amount \in 0 .. 3 : BidRejection(currentPlayerId, amount) = "")

\* the third player has just passed as the two before, and the round is void
RoundVoided ==
    /\ last.op = "bid" /\ last.result = "accepted" /\ last.amount = 0
    /\ last.events[1] = "gameReset"
    /\ phase = "bidding" /\ bidHistory = << >>

\* C14: for two combinations of the same variable-length type (straight,
\* straight of pairs, plane, plane with singles, plane with pairs) the
\* candidate is accepted over the reference if and only if both have the
\* same number of cards and the candidate's power is strictly greater.
VariableLengthBeat ==
    (phase = "playing" /\ lastPlay # Null /\ lastPlayOwnerId # currentPlayerId) =>
        \A cs \in RangeSelections(hands[currentPlayerId]) :
            LET candidate == analyzePlay(cs)
                reference == analyzePlay(lastPlay)
            IN  (candidate.type = reference.type /\ candidate.type \in VariableLengthTypes) =>
                    (PlayRejection(currentPlayerId, cs) = "" <=>
                        /\ Len(cs) = Len(lastPlay)
                        /\ candidate.power > reference.power)

\* the current player has to answer a standing play of another player
Answering == phase = "playing" /\ lastPlay # Null /\ lastPlayOwnerId # currentPlayerId

\* the cards the current player puts on the table: the whole hand
Offer == hands[currentPlayerId]

\* handlePlay accepts the cards from the current player
Accepted(cs) == PlayRejection(currentPlayerId, cs) = ""

\* C15: a rocket is accepted over every lastPlay that is a combination, and
\* no combination of any type is accepted over a lastPlay that is a rocket.
RocketRule ==
    Answering =>
        LET candidate == analyzePlay(Offer)
            reference == analyzePlay(lastPlay)
        IN  /\ (candidate.type = "rocket" /\ reference.type # "invalid") => Accepted(Offer)
            /\ reference.type = "rocket" => ~Accepted(Offer)

\* player 1 has just answered the landlord's play with the rocket
RocketAnswered ==
    /\ last.op = "play" /\ last.result = "accepted" /\ last.playerId = 1
    /\ analyzePlay(last.cards).type = "rocket"
    /\ lastPlay = last.cards /\ lastPlayOwnerId = 1
    /\ leader = 1 /\ passers = { }

\* C16: a bomb is accepted over any lastPlay that is neither a bomb nor a
\* rocket, is accepted over a bomb only when its power is strictly higher,
\* and is never accepted over a rocket; a candidate that is neither bomb nor
\* rocket is never accepted over a bomb.
BombRule ==
    Answering =>
        LET candidate == analyzePlay(Offer)
            reference == analyzePlay(lastPlay)
        IN  /\ (candidate.type = "bomb" /\ reference.type \notin { "bomb", "rocket", "invalid" })
                   => Accepted(Offer)
            /\ (candidate.type = "bomb" /\ reference.type = "bomb" /\ Accepted(Offer))
                   => candidate.power > reference.power
            /\ (candidate.type = "bomb" /\ reference.type = "rocket") => ~Accepted(Offer)
            /\ (candidate.type \notin { "bomb", "rocket" } /\ reference.type = "bomb")
                   => ~Accepted(Offer)

\* player 1 has just been refused a bomb on the higher bomb of the landlord
LowerBombRefused ==
    /\ last.op = "play" /\ last.result = "rejected" /\ last.playerId = 1
    /\ last.reason = "Need a higher bomb"
    /\ currentPlayerId = 1 /\ lastPlayOwnerId = 0
    /\ analyzePlay(hands[1]).type = "bomb"
    /\ analyzePlay(lastPlay).type = "bomb"
    /\ analyzePlay(hands[1]).power < analyzePlay(lastPlay).power

\* C17: a candidate that is neither bomb nor rocket beats the reference only
\* if both have the same type and the candidate's power is strictly greater:
\* any pairing of different types is rejected whatever the ranks, and equal
\* power never beats.
RegularRule ==
    Answering =>
        LET candidate == analyzePlay(Offer)
            reference == analyzePlay(lastPlay)
        IN  candidate.type \notin { "bomb", "rocket" } =>
                /\ Accepted(Offer) =>
                       candidate.type = reference.type /\ candidate.power > reference.power
                /\ candidate.type # reference.type => ~Accepted(Offer)
                /\ candidate.power = reference.power => ~Accepted(Offer)

\* player 1 has just been refused a combination of the type and the power of
\* the landlord's play
EqualPowerRefused ==
    /\ last.op = "play" /\ last.result = "rejected" /\ last.playerId = 1
    /\ last.reason = "Must play higher value cards"
    /\ currentPlayerId = 1 /\ lastPlayOwnerId = 0
    /\ analyzePlay(hands[1]).type = analyzePlay(lastPlay).type
    /\ analyzePlay(hands[1]).power = analyzePlay(lastPlay).power

\* the greatest value among the cards
MaxValue(cs) == CHOOSE v \in Values(cs) : \A w \in Values(cs) : w <= v

\* at least 5 cards of pairwise distinct ranks that follow one another
\* without a gap, none of them a "2" or a joker
StraightShape(cs) ==
    /\ Len(cs) >= 5
    /\ \A i, j \in DOMAIN cs : i # j => CardRank(cs[i]) # CardRank(cs[j])
    /\ \E lo \in Values(cs) : Values(cs) = lo .. (lo + Len(cs) - 1)
    /\ \A i \in DOMAIN cs : CardValue(cs[i]) # TwoValue /\ CardSuit(cs[i]) # "joker"

\* C18: a set of cards classifies as a straight if and only if it has at
\* least 5 cards of pairwise distinct, strictly consecutive ranks, none of
\* which is a "2" or a joker; its power is the highest rank of the run.
StraightRule ==
    LET play == analyzePlay(Offer)
    IN  /\ play.type = "straight" <=> StraightShape(Offer)
        /\ play.type = "straight" => play.power = MaxValue(Offer)

\* player 1 has just led 3-4-5-6-7, accepted as a straight of power 7
StraightLed ==
    /\ last.op = "play" /\ last.result = "accepted" /\ last.playerId = 1
    /\ Values(last.cards) = 3 .. 7 /\ Len(last.cards) = 5
    /\ analyzePlay(lastPlay).type = "straight"
    /\ analyzePlay(lastPlay).power = 7

PlaneTypes == { "plane", "plane_single", "plane_pair" }

\* the card is a "2" or a joker
IsTwoOrJoker(c) == CardValue(c) = TwoValue \/ CardSuit(c) = "joker"

\* C19: cards of rank "2" and jokers are classified normally as single, pair
\* (of 2s), bomb (of 2s) and rocket, but no card set whose run of pairs or
\* of triples would include the rank "2" or a joker is ever classified as
\* straight of pairs, plane, plane with singles or plane with pairs.
TwoAndJokerRule ==
    LET play == analyzePlay(Offer)
        n == Len(Offer)
        twos == \A i \in DOMAIN Offer : CardValue(Offer[i]) = TwoValue
        jokers == \A i \in DOMAIN Offer : CardSuit(Offer[i]) = "joker"
    IN  /\ (n = 1 /\ IsTwoOrJoker(Offer[1])) =>
               play.type = "single" /\ play.power = CardValue(Offer[1])
        /\ (n = 2 /\ twos) => play.type = "pair" /\ play.power = TwoValue
        /\ (n = 4 /\ twos) => play.type = "bomb"
        /\ (n = 2 /\ jokers) => play.type = "rocket"
        /\ play.type = "straight_pair" => \A i \in DOMAIN Offer : ~IsTwoOrJoker(Offer[i])
        /\ play.type \in PlaneTypes =>
               \A i \in DOMAIN Offer :
                   RankCount(Offer, CardRank(Offer[i])) = 3 => ~IsTwoOrJoker(Offer[i])

\* player 1 has just been refused the lead of K-K-A-A-2-2
PairRunWithTwoRefused ==
    /\ last.op = "play" /\ last.result = "rejected" /\ last.playerId = 1
    /\ last.reason = "Invalid card combination"
    /\ currentPlayerId = 1 /\ lastPlay = Null
    /\ Values(hands[1]) = 13 .. TwoValue /\ Len(hands[1]) = 6
    /\ \A r \in RankKeys(hands[1]) : RankCount(hands[1], r) = 2

\* the number of ranks of which the list has exactly m cards
Count(cs, m) == Cardinality({ r \in RankKeys(cs) : RankCount(cs, r) = m })

\* the values of the triples of the list follow one another without a gap
\* and stay below the "2"
TripleRun(cs) ==
    LET T == { CardValue(cs[i]) : i \in { j \in DOMAIN cs : RankCount(cs, CardRank(cs[j])) = 3 } }
    IN  /\ \E lo \in T : T = lo .. (lo + Cardinality(T) - 1)
        /\ \A v \in T : v < TwoValue

\* one triple and exactly one attached single (each = 1) or pair (each = 2)
TripleWith(cs, each) ==
    Count(cs, 3) = 1 /\ Count(cs, each) = 1 /\ Len(cs) = 3 + each

\* one four and exactly two attached singles or pairs of distinct ranks
FourWith(cs, each) ==
    Count(cs, 4) = 1 /\ Count(cs, each) = 2 /\ Len(cs) = 4 + 2 * each

\* k >= 2 consecutive triples and exactly k attached singles or pairs
PlaneWith(cs, each) ==
    LET k == Count(cs, 3)
    IN  k >= 2 /\ TripleRun(cs) /\ Count(cs, each) = k /\ Len(cs) = 3 * k + k * each

\* C20: classification never degrades to a lesser type: the shape of every
\* result with attachments accounts for all the submitted cards (triple +
\* exactly one single or one pair, four + exactly 2 singles or 2 pairs of
\* distinct ranks, k consecutive triples + exactly k singles or k pairs),
\* and a triple, a four or a run of triples with extra or missing attachment
\* cards is Invalid.
ExactShapes ==
    LET t == analyzePlay(Offer).type
    IN  /\ t = "triple_single" => TripleWith(Offer, 1)
        /\ t = "triple_pair" => TripleWith(Offer, 2)
        /\ t = "four_single" => FourWith(Offer, 1)
        /\ t = "four_pair" => FourWith(Offer, 2)
        /\ t = "plane_single" => PlaneWith(Offer, 1)
        /\ t = "plane_pair" => PlaneWith(Offer, 2)
        /\ ( /\ Count(Offer, 3) = 1 /\ Count(Offer, 4) = 0 /\ Len(Offer) > 3
             /\ ~TripleWith(Offer, 1) /\ ~TripleWith(Offer, 2) ) => t = "invalid"
        /\ ( /\ Count(Offer, 4) >= 1 /\ Len(Offer) > 4
             /\ ~FourWith(Offer, 1) /\ ~FourWith(Offer, 2) ) => t = "invalid"
        /\ ( /\ Count(Offer, 3) >= 2 /\ TripleRun(Offer) /\ Len(Offer) > 3 * Count(Offer, 3)
             /\ ~PlaneWith(Offer, 1) /\ ~PlaneWith(Offer, 2) ) => t = "invalid"

\* player 1 has just been refused the lead of a triple with two singles
ExtraSingleRefused ==
    /\ last.op = "play" /\ last.result = "rejected" /\ last.playerId = 1
    /\ last.reason = "Invalid card combination"
    /\ currentPlayerId = 1 /\ lastPlay = Null
    /\ Len(hands[1]) = 5 /\ Count(hands[1], 3) = 1 /\ Count(hands[1], 1) = 2

CombinationTypes ==
    { "invalid", "single", "pair", "triple", "triple_single", "triple_pair", "straight",
      "straight_pair", "plane", "plane_single", "plane_pair", "four_single", "four_pair",
      "bomb", "rocket" }

\* the same cards submitted in another order: backwards, and the cards at
\* even places first
Reorderings(cs) ==
    LET n == Len(cs)
    IN  { [ i \in 1 .. n |-> cs[n + 1 - i] ],
          SelectSeq([ i \in 1 .. n |-> IF i % 2 = 0 THEN cs[i] ELSE 0 ], LAMBDA c : c # 0)
             \o SelectSeq([ i \in 1 .. n |-> IF i % 2 = 1 THEN cs[i] ELSE 0 ], LAMBDA c : c # 0) }

\* C21: classification is deterministic and total: for every list of cards,
\* the empty one included, it returns one combination, Invalid for the
\* shapes it does not recognise, and type and power do not depend on the
\* order in which the cards are submitted.
ClassifyTotalAndOrderFree ==
    LET play == analyzePlay(Offer)
    IN  /\ play.type \in CombinationTypes
        /\ play.power \in Nat
        /\ play.cards = Offer
        /\ Offer = << >> => play.type = "invalid"
        /\ \A other \in Reorderings(Offer) :
              LET again == analyzePlay(other)
              IN  again.type = play.type /\ again.power = play.power

\* player 1 has just led 4-5-6-7-3 in this order, accepted as a straight
UnsortedStraightLed ==
    /\ last.op = "play" /\ last.result = "accepted" /\ last.playerId = 1
    /\ analyzePlay(last.cards).type = "straight"
    /\ Len(last.cards) = 5
    /\ CardValue(last.cards[4]) > CardValue(last.cards[5])

\* the recommender applied to the hand of the player to move and to the
\* candidates the hint finds in it against the last play
Candidates == playableCombinations(Offer)

Recommended(allCombinations, candidates) ==
    generateStrategicRecommendation(allCombinations, candidates, Len(Offer),
                                    shouldPlayOffensively(Len(Offer)))

RecommendationIffCandidate ==
    LET candidates == Candidates
        recommendation == Recommended(analyzeCards(Offer), candidates)
    IN  /\ recommendation = NoRecommendation <=> candidates = << >>
        /\ candidates # << >> =>
              \E i \in DOMAIN candidates : candidates[i] = recommendation.combination

\* the hint found combinations in the hand, none of which beats the play
NothingToRecommend ==
    /\ last.op = "hint" /\ last.result = "none"
    /\ analyzeCards(hands[0]) # << >>
    /\ Candidates = << >>

\* C24: handling a HintRequest, the recommendation it computes included,
\* changes neither phase, currentPlayerId, lastPlay, lastPlayOwnerId and
\* passCount, nor the bidding state, nor any hand, whether it answers with a
\* hint result or returns without one.
HintChangesNothing ==
    [][ last'.op = "hint" =>
          UNCHANGED << phase, currentPlayerId, lastPlay, lastPlayOwnerId, passCount,
                       bidHistory, currentBid, landlordId, landlordCards, winner,
                       hands, role >> ]_vars

\* the hint has suggested cards for a lead, and the hand still holds them
HintForLead ==
    /\ last.op = "hint" /\ last.result = "suggested"
    /\ lastPlay = Null
    /\ last.cards # << >>
    /\ Range(last.cards) \subseteq Range(hands[0])

\* C25: every rejected bid, play or pass request, a request out of turn or
\* in the wrong phase included, is answered within its own task by a
\* rejection notification (InvalidPlay, which carries the reason).
RejectionReported ==
    (last.op \in Requests /\ last.result = "rejected") =>
        /\ Includes(last.events, "invalidPlay")
        /\ last.reason # ""

\* the number of events of a name among those a handler emitted
Emitted(name) == Cardinality({ i \in DOMAIN last.events : last.events[i] = name })

\* C26: an accepted play emits exactly one PlayCardsValidated notification,
\* which carries the player, the cards played and the type the classifier
\* gave them; every accepted bid, play or pass ends with the GameStateChanged
\* broadcast; a rejected play, like any other request, emits no
\* PlayCardsValidated.
AcceptedPlayNotified ==
    /\ (last.op = "play" /\ last.result = "accepted") =>
          /\ Emitted("playCardsValidated") = 1
          /\ last.playerId = lastPlayOwnerId
          /\ last.cards = lastPlay
          /\ last.combinationType = analyzePlay(lastPlay).type
          /\ last.combinationType # "invalid"
    /\ (last.op \in Requests /\ last.result = "accepted") =>
          /\ last.events # << >>
          /\ last.events[Len(last.events)] = "gameStateChanged"
    /\ ~(last.op = "play" /\ last.result = "accepted") => Emitted("playCardsValidated") = 0

\* a pair has just been accepted and notified as a pair
PairNotified ==
    /\ last.op = "play" /\ last.result = "accepted"
    /\ last.combinationType = "pair"
    /\ Emitted("playCardsValidated") = 1

\* C27: the phase only moves from Bidding to Playing and from Playing to
\* Finished, never backwards nor past a phase, and once it is Finished
\* every bid, play or pass request is rejected and changes nothing of the
\* game.
PhaseProgress ==
    [][ /\ phase' # phase =>
              \/ phase = "bidding" /\ phase' = "playing"
              \/ phase = "playing" /\ phase' = "finished"
        /\ (phase = "finished" /\ last'.op \in Requests) =>
              /\ last'.result = "rejected"
              /\ UNCHANGED << gameVars, leader, passers, firstOut >> ]_vars

\* the game is over and the player to move, who holds the card, has just
\* been refused a play
PlayAfterFinish ==
    /\ phase = "finished"
    /\ last.op = "play" /\ last.result = "rejected"
    /\ last.playerId = currentPlayerId
    /\ hands[currentPlayerId] # << >>
    /\ winner # "none"

\* C28: a hand changes only when its player's own play is accepted, by the
\* removal of the cards played, or when the three landlord cards are added
\* to the landlord's hand as the Playing phase begins; on every other step
\* (bids, passes, rejected requests, trick clears, hints, frames) all hands
\* stay as they are, and no card is ever in two hands.
HandsChangeByPlayOrBonus ==
    /\ [](\A p, q \in Players : p # q => Range(hands[p]) \cap Range(hands[q]) = { })
    /\ [][ \A p \in Players : hands'[p] # hands[p] =>
              \/ /\ last'.op = "play" /\ last'.result = "accepted" /\ last'.playerId = p
                 /\ last'.cards # << >>
                 /\ IsHandMinus(hands'[p], hands[p], last'.cards)
              \/ /\ last'.op = "integrate" /\ p = landlordId
                 /\ phase = "bidding" /\ phase' = "playing"
                 /\ Len(landlordCards) = 3
                 /\ Len(hands'[p]) = Len(hands[p]) + 3
                 /\ Range(hands'[p]) = Range(hands[p]) \cup Range(landlordCards) ]_vars

\* the landlord has played from a hand that holds the three landlord cards,
\* and a hint has then been given to player 0 on the hand it still holds
HintAfterBonusAndPlay ==
    /\ last.op = "hint" /\ last.result = "suggested"
    /\ leader = landlordId
    /\ Range(landlordCards) \cap Range(hands[landlordId]) # { }
    /\ Range(last.cards) \subseteq Range(hands[0])

\* the step is an accepted pass that brings passCount to 2 or more and
\* gives the turn to the owner of the standing play
PassReturnsToOwner ==
    /\ Accepts("pass")
    /\ passCount + 1 >= 2
    /\ currentPlayerId' = lastPlayOwnerId

\* C29: the trick is cleared (lastPlay null, lastPlayOwnerId null,
\* passCount 0) in the very step of an accepted pass that returns the turn
\* to lastPlayOwnerId with passCount at 2 or more, and in no other step:
\* no play, bid, hint, frame, rejected request or other pass takes a
\* standing play off the table.
TrickClearedExactly ==
    [][ /\ PassReturnsToOwner =>
              lastPlay' = Null /\ lastPlayOwnerId' = NoPlayer /\ passCount' = 0
        /\ (lastPlay' = Null /\ lastPlay # Null) => PassReturnsToOwner
        /\ (lastPlayOwnerId' = NoPlayer /\ lastPlayOwnerId # NoPlayer) => PassReturnsToOwner ]_vars

\* the second pass on a play has just been accepted: the table is empty
\* and the turn is back with the player of that play
TrickJustCleared ==
    /\ last.op = "pass" /\ last.result = "accepted"
    /\ lastPlay = Null /\ lastPlayOwnerId = NoPlayer /\ passCount = 0
    /\ currentPlayerId = leader
    /\ Cardinality(passers) = 2

\* a list of cards holds no card twice
NoRepeat(cs) == \A i, j \in DOMAIN cs : i # j => cs[i] # cs[j]

\* C30: the cards of every accepted play, hence lastPlay in every state,
\* hold no card identity twice: a request that lists a card more than once
\* is never accepted, even when the repetitions make a Pair, Triple or Bomb.
NoRepeatedCardAccepted ==
    /\ lastPlay # Null => NoRepeat(lastPlay)
    /\ (last.op = "play" /\ last.result = "accepted") => NoRepeat(last.cards)

AttachmentTypes ==
    { "triple_single", "triple_pair", "four_single", "four_pair", "plane_single", "plane_pair" }

\* the values of the ranks of which the list has exactly m cards
CoreValues(cs, m) ==
    { CardValue(cs[i]) : i \in { j \in DOMAIN cs : RankCount(cs, CardRank(cs[j])) = m } }

\* C31: the power of a combination with attachments is the value of its
\* core, the rank present three times (four times for four with two singles
\* or two pairs), and for a plane the highest of its triples; the attached
\* cards have no part in it, also when one of them outranks the core.
AttachmentPowerIsCorePower ==
    LET c == analyzePlay(Offer)
        core == CoreValues(Offer, IF c.type \in { "four_single", "four_pair" } THEN 4 ELSE 3)
    IN  c.type \in AttachmentTypes =>
            /\ core # { }
            /\ c.power \in core
            /\ \A v \in core : v <= c.power

\* player 1 has led 3-3-3-4-4, accepted as a triple with a pair of power 3
LowTripleHighPair ==
    /\ last.op = "play" /\ last.result = "accepted" /\ last.playerId = 1
    /\ last.combinationType = "triple_pair"
    /\ analyzePlay(last.cards).power = 3
    /\ Values(last.cards) = { 3, 4 }
    /\ lastPlay = last.cards

\* the recommendation is first in priority, then in strength, then in power
\* among the candidates, for the given flag
BestOf(candidates, recommendation, isOffensive) ==
    LET n == Len(Offer)
        priority(c) == calculatePriority(c, n, isOffensive)
        best == recommendation.combination
    IN  \A i \in DOMAIN candidates :
            LET c == candidates[i]
            IN  /\ priority(c) <= recommendation.priority
                /\ priority(c) = recommendation.priority =>
                      /\ evaluateCombinationStrength(c) >= recommendation.strength
                      /\ evaluateCombinationStrength(c) = recommendation.strength =>
                            c.power >= best.power

\* C32: the candidate returned by the recommender has the maximal priority
\* score among all legal candidates; among the candidates of maximal
\* priority it has the lowest strength tier, and among those the lowest
\* power.
RecommendationIsBest ==
    LET allCombinations == analyzeCards(Offer)
        candidates == Candidates
    IN  \A isOffensive \in BOOLEAN :
            LET recommendation == generateStrategicRecommendation(allCombinations, candidates,
                                                                  Len(Offer), isOffensive)
            IN  recommendation # NoRecommendation =>
                    /\ recommendation.priority
                          = calculatePriority(recommendation.combination, Len(Offer), isOffensive)
                    /\ recommendation.strength
                          = evaluateCombinationStrength(recommendation.combination)
                    /\ BestOf(candidates, recommendation, isOffensive)

\* the hint has suggested cards where the candidates differ in priority and
\* where another candidate of the same priority and strength has more power
HintBreaksTies ==
    /\ last.op = "hint" /\ last.result = "suggested"
    /\ LET candidates == Candidates
           isOffensive == shouldPlayOffensively(Len(Offer))
           recommendation == Recommended(analyzeCards(Offer), candidates)
       IN  /\ recommendation.combination.cards = last.cards
           /\ \E i \in DOMAIN candidates :
                 calculatePriority(candidates[i], Len(Offer), isOffensive)
                    < recommendation.priority
           /\ \E i \in DOMAIN candidates :
                 /\ calculatePriority(candidates[i], Len(Offer), isOffensive)
                       = recommendation.priority
                 /\ evaluateCombinationStrength(candidates[i]) = recommendation.strength
                 /\ candidates[i].power > recommendation.combination.power

\* the flag as specified for a role and a number of remaining cards
WantOffensive(playerId, remainingCards) ==
    \/ remainingCards <= 5
    \/ role[playerId] = "landlord" /\ remainingCards <= 10
    \/ role[playerId] = "farmer" /\ remainingCards <= 8

\* C33: the offensive flag passed to the recommender is true exactly when
\* the player has at most 5 cards, or is the landlord with at most 10, or is
\* a farmer with at most 8; the AI computes it so for every player, and the
\* hint, when it answers, uses the same flag for the role and the hand of the
\* player it answers.
OffensiveFlagAgreed ==
    /\ \A p \in Players :
          shouldAIPlayOffensively(p, Len(hands[p])) = WantOffensive(p, Len(hands[p]))
    /\ (last.op = "hint" /\ last.result # "ignored") =>
          /\ shouldPlayOffensively(Len(hands[last.playerId]))
                = WantOffensive(last.playerId, Len(hands[last.playerId]))
          /\ shouldPlayOffensively(Len(hands[last.playerId]))
                = shouldAIPlayOffensively(last.playerId, Len(hands[last.playerId]))

\* C35: in every state of the Playing phase no play stands if and only if
\* no player owns one; with no play standing the pass count is 0; with a
\* play standing the player to move is not its owner and the pass count is
\* the number of players between the owner and the player to move, 0 or 1,
\* so that a request of the owner never meets a standing play.
RoundBookkeeping ==
    phase = "playing" =>
        /\ lastPlay = Null <=> lastPlayOwnerId = NoPlayer
        /\ lastPlay = Null => passCount = 0
        /\ lastPlay # Null =>
              /\ currentPlayerId # lastPlayOwnerId
              /\ passCount = (currentPlayerId - lastPlayOwnerId - 1) % NumPlayers
              /\ passCount \in { 0, 1 }

\* one player has passed on a standing play and the next one is to move
OnePassCounted ==
    /\ phase = "playing"
    /\ last.op = "pass" /\ last.result = "accepted"
    /\ lastPlay # Null /\ passCount = 1
    /\ currentPlayerId = (lastPlayOwnerId + 2) % NumPlayers

\* C37: in every state of the Playing phase in which the player to move
\* holds cards, that player has a request that is accepted: the pass when a
\* play stands, and the play of any one card of the hand when none does.
AlwaysARequestToAccept ==
    (phase = "playing" /\ Offer # << >>) =>
        IF lastPlay # Null
        THEN PassRejection(currentPlayerId) = ""
        ELSE \A i \in DOMAIN Offer : PlayRejection(currentPlayerId, << Offer[i] >>) = ""

\* the second pass has cleared the table: the player to move holds more than
\* one card and may lead any of them
LeadAfterPasses ==
    /\ phase = "playing"
    /\ last.op = "pass" /\ last.result = "accepted"
    /\ lastPlay = Null
    /\ Len(Offer) >= 2
    /\ \A i \in DOMAIN Offer : PlayRejection(currentPlayerId, << Offer[i] >>) = ""

\* a step of the window between the bid that made a landlord and the timer
\* that opens the Playing phase
WindowStep ==
    /\ Len(timers) = 1
    /\ phase = "bidding"
    /\ IF timers' = timers
       THEN /\ UNCHANGED << phase, currentBid, landlordId, bidHistory, currentPlayerId, hands >>
            /\ ~(last = Idle /\ last'.op \in Requests /\ last'.result = "accepted")
       ELSE /\ timers' = << >>
            /\ last'.op = "integrate"
            /\ phase' = "playing"

\* C38: between the accepted bid that ends the bidding with a landlord and
\* the delayed transition to Playing, no bid, play or pass of any player is
\* accepted, and the bid, the landlord, the bid history, the player to move
\* and all hands stay as they are; the pending transition is neither
\* cancelled nor set a second time.
RevealWindowQuiet == [][timers # << >> => WindowStep]_vars

\* a request has just been refused while the landlord cards are shown
RefusedInRevealWindow ==
    /\ timers # << >>
    /\ phase = "bidding"
    /\ last.op \in Requests /\ last.result = "rejected"
    /\ Len(bidHistory) < NumPlayers

\* the number of cards in the three hands
CardsInHands == Len(hands[0]) + Len(hands[1]) + Len(hands[2])

\* an accepted pass is the first or the second since the last accepted play,
\* of a player other than the one who made that play; an accepted play takes
\* at least one card out of the hands
TowardsTheEnd ==
    /\ (last = Idle /\ last'.op = "pass" /\ last'.result = "accepted") =>
          /\ last'.playerId \notin passers
          /\ last'.playerId # leader
          /\ passers' = passers \cup { last'.playerId }
          /\ Cardinality(passers') <= 2
    /\ (last = Idle /\ last'.op = "play" /\ last'.result = "accepted") =>
          /\ CardsInHands' < CardsInHands
          /\ passers' = { }

\* C40: the Playing phase terminates: there are never three accepted passes
\* in a row without an accepted play between them, every accepted play
\* removes at least one card from a hand, and so, when the player to move
\* keeps making a request that is accepted and the win check keeps running,
\* the game reaches Finished.
PlayingTerminates ==
    /\ [][TowardsTheEnd]_vars
    /\ (phase = "playing") ~> (phase = "finished")

\* the win check has just ended the game for the player whose play, still
\* standing, emptied the hand
FinishedByLastPlay ==
    /\ phase = "finished"
    /\ last.op = "frame"
    /\ winner # "none"
    /\ lastPlay # Null
    /\ lastPlayOwnerId = firstOut
    /\ hands[firstOut] = << >>

\* C36: every combination that the legality filter of the AI keeps as
\* playable (an entry of analyzeCards on the hand that beats the AI's reading
\* of the last play, or any entry when the AI leads) is accepted by the
\* validator when its cards are submitted in the same state.
AIPlayableIsAccepted ==
    (phase = "playing" /\ isAI(currentPlayerId)) =>
        LET playable == aiPlayableCombinations(currentPlayerId)
        IN  \A i \in DOMAIN playable :
                PlayRejection(currentPlayerId, playable[i].cards) = ""

\* C34: an AI player does not retry rejected plays for ever: of its play
\* requests, at most 3 in a row are refused as invalid, the request after
\* them being a PassTurnRequest
AIGivesUpAfterThree ==
    \A p \in Players : rejectedPlays[p] <= 3

\* a step in which a callback of AISystem runs for a player who is not, or
\* is no longer, the player to move
StaleDecision ==
    /\ aiTimers # << >>
    /\ aiTimers' = Tail(aiTimers)
    /\ Head(aiTimers) # currentPlayerId

\* C39: at most one decision of the AI is pending at any time, isThinking
\* being set exactly while it is, and a decision that runs for a player who
\* is no longer the player to move changes no round state, no bidding state
\* and no hand
OneDecisionPending ==
    /\ [](Len(aiTimers) <= 1 /\ (isThinking <=> aiTimers # << >>))
    /\ [][StaleDecision => UNCHANGED ruleVars]_vars

\* a decision set for an AI player has run after the turn moved to another
\* player, and its request was refused
StaleDecisionRefused ==
    /\ last # Idle
    /\ isAI(last.playerId)
    /\ last.playerId # currentPlayerId
    /\ last.result = "rejected"
    /\ ~isThinking

====
